---- MODULE Spec2Model ----
(***************************************************************************)
(* Round engine of the mafia game (src/mafia/game.py): the run loop, the   *)
(* day phase with its vote-tie escalation, the night phase with its staged *)
(* sheriff death, the win check and the per-participant history view.      *)
(*                                                                         *)
(* Participants are numbered from 0 as in the code.  An optional id is an  *)
(* integer or None; an optional record or list is Nothing or Some(x).      *)
(* Decision policies are black boxes: every query is answered by a value   *)
(* chosen from a small answer set handed to the action.                    *)
(***************************************************************************)
EXTENDS Integers, Sequences, FiniteSets, TLC

VARIABLES
    players,              \* Game.players: pid -> [pid, role, alive]
    history,              \* Game.history: sequence of RoundLog
    day_start_pid,        \* Game.day_start_pid: rotation pointer
    current_speeches,     \* Game.current_speeches
    pc,                   \* position of the engine
    round_no,             \* run(): round_no, the day_no / night_no of the phase
    winner,               \* run(): winner
    day_log,              \* run(): day_log, Nothing until day_phase returned
    night_log,            \* run(): night_log, Nothing until night_phase returned
    speeches,             \* day_phase(): speeches
    nominations,          \* day_phase(): nominations
    votes,                \* day_phase(): votes
    eliminated,           \* day_phase(): eliminated
    current_candidates,   \* day_phase(): current_candidates
    previous_candidates,  \* day_phase(): previous_candidates (<<>> for None)
    vote_counts,          \* day_phase(): vote_counts
    top,                  \* day_phase(): top
    ordered_players,      \* day_phase(): ordered_players (pids)
    idx,                  \* position inside the loop being executed
    yes_votes,            \* day_phase(): yes votes counted so far
    kill,                 \* night_phase(): kill
    don_check,            \* night_phase(): don_check
    sheriff_check,        \* night_phase(): sheriff_check
    alive_at_start,       \* alive flags when the phase in progress began
    trace,                \* events emitted and policies queried in this phase
    visible,              \* value returned by the last history_for call
    requester,            \* pid given to the last history_for call
    known_sheriff,        \* strategy.known_sheriff of every participant
    answer,               \* what the policy asked last returned
    handlers,             \* dispatcher._handlers: event name -> subscriptions
    calls,                \* handler invocations made by the dispatcher
    set_choice,           \* what max(set(..)) has returned, by suggestion list
    earlier,              \* history and winner of the caller's earlier run()
    db,                   \* the caller's GameHistoryDB
    logged                \* the games handed to log_game so far, in order

vars == <<players, history, day_start_pid, current_speeches, pc, round_no,
          winner, day_log, night_log, speeches, nominations, votes,
          eliminated, current_candidates, previous_candidates, vote_counts,
          top, ordered_players, idx, yes_votes, kill, don_check,
          sheriff_check, alive_at_start, trace, visible, requester,
          known_sheriff, answer, handlers, calls, set_choice, earlier, db,
          logged>>

dayLocals == <<speeches, nominations, votes, eliminated, current_candidates,
               previous_candidates, vote_counts, top, ordered_players,
               yes_votes>>

nightLocals == <<kill, don_check, sheriff_check>>

runLocals == <<round_no, winner, day_log, night_log>>

viewVars == <<visible, requester>>

policyVars == <<known_sheriff>>

dispatcherVars == <<handlers, calls>>

interpreterVars == <<set_choice>>

callerVars == <<earlier, db, logged>>

\* What lies outside the Game object.
outsideVars == <<dispatcherVars, interpreterVars, callerVars>>

----------------------------------------------------------------------------
(* Values *)

None == -1

Nothing == {}

Some(x) == {x}

The(opt) == CHOOSE x \in opt : TRUE

CIVILIAN == "CIVILIAN"

MAFIA == "MAFIA"

SHERIFF == "SHERIFF"

DON == "DON"

NoRole == "None"

Role == {CIVILIAN, MAFIA, SHERIFF, DON}

is_mafia(role) == role \in {MAFIA, DON}

is_civilian(role) == ~is_mafia(role)

Player(p, r) == [pid |-> p, role |-> r, alive |-> TRUE]

SpeechAction(nom, cl) == [nomination |-> nom, claims |-> cl]

SpeechLog(p, action) == [speaker |-> p, action |-> action]

Vote(p, t) == [voter |-> p, target |-> t]

CheckResult(c, t, m) == [checker |-> c, target |-> t, is_mafia |-> m]

DonCheckResult(c, t, s) == [checker |-> c, target |-> t, is_sheriff |-> s]

DayLog(sp, vt, el) == [speeches |-> sp, votes |-> vt, eliminated |-> el]

NightLog(sc, dc, k) == [sheriff_check |-> sc, don_check |-> dc, kill |-> k]

RoundLog(d, n) == [day |-> d, night |-> n]

----------------------------------------------------------------------------
(* Lists *)

Min(S) == CHOOSE x \in S : \A y \in S : x <= y

Max(S) == CHOOSE x \in S : \A y \in S : x >= y

Range(s) == {s[i] : i \in 1..Len(s)}

Last(s) == s[Len(s)]

NumPlayers == Cardinality(DOMAIN players)

Pids == DOMAIN players

PidSeq == [i \in 1..NumPlayers |-> i - 1]

get_player(pid) == players[pid]

is_alive(pid) == players[pid].alive

\* Fault: the list holds every participant, dead or alive.
every_player == PidSeq

alive_players == SelectSeq(PidSeq, LAMBDA p : players[p].alive)

AliveFlags == [p \in Pids |-> players[p].alive]

----------------------------------------------------------------------------
(* Bounds and inputs *)

\* run() is followed for at most this many rounds.
MaxRounds == 2

\* Largest day number given to a direct day_phase call.
MaxDayNo == 2

\* In a direct day_phase call only the first MaxNominees participants are
\* ever nominated.
MaxNominees == 3

\* night_phase is called directly at most this many times in a row.
MaxNights == 2

\* A dispatcher used on its own gets at most this many subscriptions.
MaxSubscriptions == 3

\* A dispatcher used on its own emits at most this many events.
MaxEmits == 2

\* The long games of run() are followed for at most this many rounds.
MaxLongRounds == 4

\* Largest roster on which check_win is evaluated directly.
MaxPlayers == 4

ToPlayers(roles) == [p \in 0..(Len(roles) - 1) |-> Player(p, roles[p + 1])]

\* Rosters given to run(): the last two are malformed (no sheriff, no don).
RunRosters ==
    { <<SHERIFF, DON, CIVILIAN, CIVILIAN>>,
      <<DON, CIVILIAN, MAFIA>>,
      <<SHERIFF, CIVILIAN, MAFIA>> }

\* Rosters of the games on which day_phase is called directly.
DayRosters ==
    { <<CIVILIAN, CIVILIAN, CIVILIAN, CIVILIAN>>,
      <<SHERIFF, DON, CIVILIAN>> }

\* Rosters of the games on which night_phase is called directly.
NightRosters ==
    { <<SHERIFF, MAFIA>>,
      <<SHERIFF, DON, MAFIA, CIVILIAN>>,
      <<CIVILIAN, MAFIA, MAFIA, SHERIFF>>,
      <<DON, CIVILIAN, CIVILIAN>> }

OptPid == {None} \cup Pids

NoClaims == <<>>

\* Answers of the speak / last_words policies: the nomination ranges over
\* noms, the claim list over cls.
SpeechAnswers(noms, cls) == {SpeechAction(n, c) : n \in noms, c \in cls}

SomeClaim(p) == <<[claimant |-> p, target |-> 0, is_mafia |-> TRUE]>>

----------------------------------------------------------------------------
(* Observations: what the dispatcher publishes and which policy is asked *)

Emit(name, day, num, who, target, flag, list) ==
    [kind |-> "emit", name |-> name, day |-> day, num |-> num, who |-> who,
     target |-> target, flag |-> flag, list |-> list]

Query(name, who, list) ==
    [kind |-> "query", name |-> name, day |-> round_no, num |-> None,
     who |-> who, target |-> None, flag |-> FALSE, list |-> list]

Emitted(name) == {i \in 1..Len(trace) :
                    trace[i].kind = "emit" /\ trace[i].name = name}

Queried(name) == {i \in 1..Len(trace) :
                    trace[i].kind = "query" /\ trace[i].name = name}

----------------------------------------------------------------------------
(* EventDispatcher *)

\* A callable given to subscribe; raises tells whether calling it raises.
Handler(name, raises) == [id |-> name, raises |-> raises]

\* One invocation of a handler for an emission of event.
Call(handler, event) == [handler |-> handler.id, event |-> event]

Raises(hs) == \E i \in 1..Len(hs) : hs[i].raises

\* Fault: the handlers are invoked newest first.
DeliveredNewestFirst(hs) == [i \in 1..Len(hs) |-> hs[Len(hs) + 1 - i]]

\* Fault: the handlers after a failing one are invoked as well.
DeliveredDespiteFailure(hs) == hs

\* The handlers invoked by one emission to the subscriptions hs: all of
\* them in subscription order, up to the first one that raises.
Delivered(hs) ==
    IF Raises(hs)
    THEN SubSeq(hs, 1, Min({i \in 1..Len(hs) : hs[i].raises}))
    ELSE hs

\* The invocations made by emit(event).
Invocations(event) ==
    [i \in 1..Len(Delivered(handlers[event])) |->
       Call(Delivered(handlers[event])[i], event)]

\* subscribe(event, handler)
Subscribe(event, handler) ==
    /\ pc = "dispatcher"
    /\ handlers' = [handlers EXCEPT ![event] = Append(@, handler)]
    /\ UNCHANGED <<players, history, day_start_pid, current_speeches, pc,
                   runLocals, dayLocals, idx, nightLocals, alive_at_start,
                   trace, viewVars, policyVars, answer, calls,
                   interpreterVars, callerVars>>

\* emit(event, **payload): the loop over the subscriptions of the event;
\* an error raised by a handler leaves the loop and emit.
EmitEvent(event) ==
    /\ pc = "dispatcher"
    /\ trace' = Append(trace, Emit(event, None, None, None, None, FALSE, <<>>))
    /\ calls' = calls \o Invocations(event)
    /\ pc' = IF Raises(handlers[event]) THEN "raised" ELSE "dispatcher"
    /\ UNCHANGED <<players, history, day_start_pid, current_speeches,
                   runLocals, dayLocals, idx, nightLocals, alive_at_start,
                   viewVars, policyVars, answer, handlers,
                   interpreterVars, callerVars>>

----------------------------------------------------------------------------
(* Win check *)

mafia_count ==
    Cardinality({p \in Pids : players[p].alive /\ is_mafia(players[p].role)})

civilian_count ==
    Cardinality({p \in Pids : players[p].alive /\ is_civilian(players[p].role)})

\* Fault: the mafia needs more members than the civilians have.
check_win_strict ==
    IF mafia_count = 0 THEN CIVILIAN
    ELSE IF mafia_count > civilian_count THEN MAFIA
    ELSE NoRole

check_win ==
    IF mafia_count = 0 THEN CIVILIAN
    ELSE IF mafia_count >= civilian_count THEN MAFIA
    ELSE NoRole

----------------------------------------------------------------------------
(* Construction *)

Answer(query, who, value) == [query |-> query, who |-> who, value |-> value]

NoAnswer == Answer("none", None, None)

\* The names of the events the engine emits.
EventNames ==
    {"game_started", "day_started", "speech_added", "vote_cast", "info",
     "players_eliminated", "no_elimination", "night_started", "night_action"}

\* EventDispatcher(): no handler is subscribed to any event.
NoHandlers == [e \in EventNames |-> <<>>]

\* Game(players, dispatcher): ps is the list given to the constructor and
\* hs the subscriptions of the dispatcher.
\* No GameHistoryDB has been constructed.
NoDB == [batch_size |-> 1, buffer |-> <<>>, rows |-> <<>>, open |-> FALSE]

InitGameWith(ps, hs) ==
    /\ handlers = hs
    /\ calls = <<>>
    /\ set_choice = <<>>
    /\ earlier = Nothing
    /\ db = NoDB
    /\ logged = <<>>
    /\ players = ps
    /\ history = <<>>
    /\ day_start_pid = 0
    /\ current_speeches = <<>>
    /\ winner = NoRole
    /\ day_log = Nothing
    /\ night_log = Nothing
    /\ speeches = <<>>
    /\ nominations = <<>>
    /\ votes = <<>>
    /\ eliminated = <<>>
    /\ current_candidates = <<>>
    /\ previous_candidates = <<>>
    /\ vote_counts = <<>>
    /\ top = <<>>
    /\ ordered_players = <<>>
    /\ idx = 1
    /\ yes_votes = 0
    /\ kill = None
    /\ don_check = Nothing
    /\ sheriff_check = Nothing
    /\ alive_at_start = [p \in DOMAIN ps |-> ps[p].alive]
    /\ trace = <<>>
    /\ visible = <<>>
    /\ requester = None
    /\ known_sheriff = [p \in DOMAIN ps |-> None]
    /\ answer = NoAnswer

\* Game(players): the game makes a dispatcher of its own.
InitGame(ps) == InitGameWith(ps, NoHandlers)

\* Game(players) on which run() is about to be called.
Init ==
    /\ \E roles \in RunRosters : InitGame(ToPlayers(roles))
    /\ pc = "run"
    /\ round_no = 0

----------------------------------------------------------------------------
(* add_speech and _notify_speech: the speech joins current_speeches and is *)
(* published with its zero-based index.                                    *)

\* Fault: the index published is the number of speeches after the append.
SpeechAddedCounted(speech) ==
    Emit("speech_added", round_no, Len(current_speeches) + 1, speech.speaker,
         speech.action.nomination, FALSE, speech.action.claims)

SpeechAdded(speech) ==
    Emit("speech_added", round_no, Len(current_speeches), speech.speaker,
         speech.action.nomination, FALSE, speech.action.claims)

\* Fault: the nomination of the answer is kept.
Unmuted(action) == action

\* The speech recorded for a policy answer whose nomination is suppressed.
Muted(action) == [action EXCEPT !.nomination = None]

\* add_speech(speech) called from outside the engine, with the default
\* day number, on a game that has not started.
AddSpeech ==
    /\ pc = "run"
    /\ current_speeches = <<>>
    /\ \E speaker \in Pids :
         LET speech == SpeechLog(speaker, SpeechAction(None, NoClaims))
         IN  /\ current_speeches' = Append(current_speeches, speech)
             /\ trace' = Append(trace,
                    Emit("speech_added", 1, Len(current_speeches), speaker,
                         None, FALSE, NoClaims))
    /\ UNCHANGED <<players, history, day_start_pid, pc, runLocals, dayLocals,
                   idx, nightLocals, alive_at_start, viewVars, policyVars,
                   outsideVars,
                   answer>>

----------------------------------------------------------------------------
(* Day phase *)

\* Fault: last night's victim is never looked up.
NoLastKill == None

\* Last night's victim, if the previous round recorded one.
LastKill ==
    IF /\ history # <<>>
       /\ Last(history).night # Nothing
       /\ The(Last(history).night).kill # None
    THEN The(Last(history).night).kill
    ELSE None

\* Fault: the speakers are not rotated.
Unrotated == alive_players

\* The alive participants, rotated to start at the first id >= day_start_pid.
OrderedPlayers ==
    LET alive == alive_players
        later == {i \in 1..Len(alive) : alive[i] >= day_start_pid}
        start == IF later = {} THEN 1 ELSE Min(later)
    IN  SubSeq(alive, start, Len(alive)) \o SubSeq(alive, 1, start - 1)

\* Fault: a dead participant can be nominated.
NominateDead(noms, nom) ==
    IF nom # None /\ nom \notin Range(noms)
    THEN Append(noms, nom)
    ELSE noms

\* The nomination list after a regular speech naming nom.
Nominate(noms, nom) ==
    IF nom # None /\ is_alive(nom) /\ nom \notin Range(noms)
    THEN Append(noms, nom)
    ELSE noms

\* Fault: a single nomination skips the vote on every day.
SkipOnAnyDay(day_no, noms) == Len(noms) = 1

\* Rule 4.4.10: no vote on the first day when only one nomination exists.
SkipVoting(day_no, noms) == day_no = 1 /\ Len(noms) = 1

\* Fault: a vote for anything but a current candidate goes to the first one.
ForcedToFirst(vote_target, candidates) ==
    IF vote_target \notin Range(candidates)
    THEN candidates[1]
    ELSE vote_target

\* A vote for anything but a current candidate goes to the last candidate.
ForcedVote(vote_target, candidates) ==
    IF vote_target \notin Range(candidates)
    THEN Last(candidates)
    ELSE vote_target

\* Fault: every candidate who got a vote is kept.
TopOfVoted(candidates, counts) ==
    SelectSeq(candidates, LAMBDA c : counts[c] > 0)

\* The candidates holding the maximum count, in candidate order.
TopOf(candidates, counts) ==
    LET max_votes == Max({counts[c] : c \in Range(candidates)})
    IN  SelectSeq(candidates, LAMBDA c : counts[c] = max_votes)

\* The tied candidates, in nomination order, who get an extra speech.
TieSpeakers == SelectSeq(nominations, LAMBDA c : c \in Range(top))

\* Rule 4.4.12.3: the same set tied again.
\* Fault: the tie of the previous round is never recognised.
SameTieForgotten(prev, tied) == FALSE

\* `if previous_candidates and set(top) == set(previous_candidates)`
SameTie(prev, tied) == prev # <<>> /\ Range(tied) = Range(prev)

\* Fault: half of the alive is enough for the mass elimination.
MassEliminationAtHalf(yes, n_alive) == yes >= n_alive \div 2

\* The mass elimination passes with more yes votes than half of the alive.
MassEliminationPasses(yes, n_alive) == yes > n_alive \div 2

\* Start of one pass of the voting loop.
StartRound(candidates, tr) ==
    /\ vote_counts' = [c \in Range(candidates) |-> 0]
    /\ trace' = Append(tr, Emit("info", round_no, None, None, None, FALSE,
                                <<"voting">>))
    /\ idx' = 1
    /\ pc' = "voting"

DayStart ==
    /\ pc = "day_start"
    /\ speeches' = <<>>
    /\ nominations' = <<>>
    /\ current_speeches' = <<>>
    /\ alive_at_start' = AliveFlags
    /\ trace' = <<Emit("day_started", round_no, None, None, None, FALSE, <<>>)>>
    /\ idx' = 1
    /\ IF LastKill # None
       THEN pc' = "posthumous" /\ UNCHANGED ordered_players
       ELSE pc' = "speeches" /\ ordered_players' = OrderedPlayers
    /\ UNCHANGED <<players, history, day_start_pid, runLocals, votes,
                   eliminated, current_candidates, previous_candidates,
                   vote_counts, top, yes_votes, nightLocals, viewVars,
                   policyVars, outsideVars, answer>>

\* Morning speech of last night's victim.
PosthumousSpeech(answers) ==
    /\ pc = "posthumous"
    /\ \E reply \in answers[LastKill] :
         LET victim == get_player(LastKill)
             speech == SpeechLog(victim.pid, Muted(reply))
         IN  /\ answer' = Answer("last_words", victim.pid, reply)
             /\ speeches' = Append(speeches, speech)
             /\ current_speeches' = Append(current_speeches, speech)
             /\ trace' = trace \o <<Query("last_words", victim.pid, <<>>),
                                    SpeechAdded(speech)>>
    /\ ordered_players' = OrderedPlayers
    /\ idx' = 1
    /\ pc' = "speeches"
    /\ UNCHANGED <<players, history, day_start_pid, runLocals, nominations,
                   votes, eliminated, current_candidates, previous_candidates,
                   vote_counts, top, yes_votes, nightLocals, alive_at_start,
                   viewVars, policyVars, outsideVars>>

\* One regular speech, with its nomination.
RegularSpeech(answers) ==
    /\ pc = "speeches"
    /\ idx <= Len(ordered_players)
    /\ \E reply \in answers[ordered_players[idx]] :
         LET player == get_player(ordered_players[idx])
             speech == SpeechLog(player.pid, reply)
         IN  /\ answer' = Answer("speak", player.pid, reply)
             /\ speeches' = Append(speeches, speech)
             /\ current_speeches' = Append(current_speeches, speech)
             /\ trace' = trace \o <<Query("speak", player.pid, <<>>),
                                    SpeechAdded(speech)>>
             /\ nominations' = Nominate(nominations, reply.nomination)
    /\ idx' = idx + 1
    /\ UNCHANGED <<players, history, day_start_pid, pc, runLocals, votes,
                   eliminated, current_candidates, previous_candidates,
                   vote_counts, top, ordered_players, yes_votes, nightLocals,
                   alive_at_start, viewVars, policyVars, outsideVars>>

\* After the speeches: the skip rule, then the voting loop is entered or not.
BeginVoting ==
    /\ pc = "speeches"
    /\ idx > Len(ordered_players)
    /\ votes' = <<>>
    /\ eliminated' = <<>>
    /\ IF SkipVoting(round_no, nominations)
       THEN /\ pc' = "apply"
            /\ UNCHANGED <<current_candidates, previous_candidates,
                           vote_counts, trace, idx>>
       ELSE /\ current_candidates' = nominations
            /\ previous_candidates' = <<>>
            /\ IF nominations # <<>>
               THEN StartRound(nominations, trace)
               ELSE pc' = "apply" /\ UNCHANGED <<vote_counts, trace, idx>>
    /\ UNCHANGED <<players, history, day_start_pid, current_speeches,
                   runLocals, speeches, nominations, top, ordered_players,
                   yes_votes, nightLocals, alive_at_start, viewVars,
                   policyVars, outsideVars, answer>>

\* One alive participant votes in the current round.
CastVote(answers) ==
    /\ pc = "voting"
    /\ idx <= Len(alive_players)
    /\ \E reply \in answers[alive_players[idx]] :
         LET player == get_player(alive_players[idx])
             asked == Query("vote", player.pid, current_candidates)
         IN  /\ answer' = Answer("vote", player.pid, reply)
             /\ IF current_candidates # <<>>
                THEN LET target == ForcedVote(reply, current_candidates)
                     IN  /\ votes' = Append(votes, Vote(player.pid, target))
                         /\ vote_counts' =
                              [vote_counts EXCEPT ![target] = @ + 1]
                         /\ trace' = trace \o
                              <<asked, Emit("vote_cast", round_no, None,
                                            player.pid, target, FALSE,
                                            <<>>)>>
                ELSE /\ votes' = Append(votes, Vote(player.pid, None))
                     /\ trace' = trace \o
                          <<asked, Emit("vote_cast", round_no, None,
                                        player.pid, None, FALSE, <<>>)>>
                     /\ UNCHANGED vote_counts
    /\ idx' = idx + 1
    /\ UNCHANGED <<players, history, day_start_pid, current_speeches, pc,
                   runLocals, speeches, nominations, eliminated,
                   current_candidates, previous_candidates, top,
                   ordered_players, yes_votes, nightLocals, alive_at_start,
                   viewVars, policyVars, outsideVars>>

\* The votes of the round are counted.
Tally ==
    /\ pc = "voting"
    /\ idx > Len(alive_players)
    /\ IF DOMAIN vote_counts = {}
       THEN /\ pc' = "apply"
            /\ UNCHANGED <<top, eliminated, trace, idx>>
       ELSE LET tied == TopOf(current_candidates, vote_counts)
            IN  /\ top' = tied
                /\ IF Len(tied) = 1
                   THEN /\ eliminated' = tied
                        /\ pc' = "apply"
                        /\ UNCHANGED <<trace, idx>>
                   ELSE /\ trace' = Append(trace,
                             Emit("info", round_no, None, None, None, FALSE,
                                  <<"tie detected, revoting">>))
                        /\ idx' = 1
                        /\ pc' = "tie_speeches"
                        /\ UNCHANGED eliminated
    /\ UNCHANGED <<players, history, day_start_pid, current_speeches,
                   runLocals, speeches, nominations, votes,
                   current_candidates, previous_candidates, vote_counts,
                   ordered_players, yes_votes, nightLocals, alive_at_start,
                   viewVars, policyVars, outsideVars, answer>>

\* Rule 4.4.12: one extra speech of a tied candidate, nomination ignored.
TieSpeech(answers) ==
    /\ pc = "tie_speeches"
    /\ idx <= Len(TieSpeakers)
    /\ \E reply \in answers[TieSpeakers[idx]] :
         LET player == get_player(TieSpeakers[idx])
             speech == SpeechLog(player.pid, Muted(reply))
         IN  /\ answer' = Answer("speak", player.pid, reply)
             /\ speeches' = Append(speeches, speech)
             /\ current_speeches' = Append(current_speeches, speech)
             /\ trace' = trace \o <<Query("speak", player.pid, <<>>),
                                    SpeechAdded(speech)>>
    /\ idx' = idx + 1
    /\ UNCHANGED <<players, history, day_start_pid, pc, runLocals,
                   nominations, votes, eliminated, current_candidates,
                   previous_candidates, vote_counts, top, ordered_players,
                   yes_votes, nightLocals, alive_at_start, viewVars,
                   policyVars, outsideVars>>

\* After the extra speeches: the mass-elimination vote on a repeated tie,
\* otherwise a revote among the tied candidates.
AfterTieSpeeches ==
    /\ pc = "tie_speeches"
    /\ idx > Len(TieSpeakers)
    /\ IF SameTie(previous_candidates, top)
       THEN /\ trace' = Append(trace,
                 Emit("info", round_no, None, None, None, FALSE,
                      <<"revote tie, voting on elimination">>))
            /\ yes_votes' = 0
            /\ idx' = 1
            /\ pc' = "mass_vote"
            /\ UNCHANGED <<current_candidates, previous_candidates,
                           vote_counts>>
       ELSE /\ previous_candidates' = top
            /\ current_candidates' = top
            /\ StartRound(top, trace)
            /\ UNCHANGED yes_votes
    /\ UNCHANGED <<players, history, day_start_pid, current_speeches,
                   runLocals, speeches, nominations, votes, eliminated, top,
                   ordered_players, nightLocals, alive_at_start, viewVars,
                   policyVars, outsideVars, answer>>

\* One alive participant answers the mass-elimination question.
MassVote(answers) ==
    /\ pc = "mass_vote"
    /\ idx <= Len(alive_players)
    /\ \E reply \in answers[alive_players[idx]] :
         /\ answer' = Answer("vote_elimination", alive_players[idx], reply)
         /\ yes_votes' = IF reply THEN yes_votes + 1 ELSE yes_votes
         /\ trace' = Append(trace,
                Query("vote_elimination", alive_players[idx], top))
    /\ idx' = idx + 1
    /\ UNCHANGED <<players, history, day_start_pid, current_speeches, pc,
                   runLocals, speeches, nominations, votes, eliminated,
                   current_candidates, previous_candidates, vote_counts, top,
                   ordered_players, nightLocals, alive_at_start, viewVars,
                   policyVars, outsideVars>>

\* The mass-elimination vote is decided and the voting loop left.
MassDecide ==
    /\ pc = "mass_vote"
    /\ idx > Len(alive_players)
    /\ eliminated' = IF MassEliminationPasses(yes_votes, Len(alive_players))
                     THEN top
                     ELSE eliminated
    /\ pc' = "apply"
    /\ UNCHANGED <<players, history, day_start_pid, current_speeches,
                   runLocals, speeches, nominations, votes,
                   current_candidates, previous_candidates, vote_counts, top,
                   ordered_players, idx, yes_votes, nightLocals,
                   alive_at_start, trace, viewVars, policyVars, outsideVars,
                   answer>>

\* The eliminated participants are marked dead and the outcome published.
\* Fault: every candidate of the last voting round is marked dead.
EliminateCandidates(ps, ids) ==
    [p \in DOMAIN ps |->
       IF p \in Range(ids) \cup Range(current_candidates)
       THEN [ps[p] EXCEPT !.alive = FALSE]
       ELSE ps[p]]

\* `for pid in eliminated: self.players[pid].alive = False`
EliminateAll(ps, ids) ==
    [p \in DOMAIN ps |->
       IF p \in Range(ids) THEN [ps[p] EXCEPT !.alive = FALSE] ELSE ps[p]]

ApplyElimination ==
    /\ pc = "apply"
    /\ IF eliminated # <<>>
       THEN /\ players' = EliminateAll(players, eliminated)
            /\ trace' = Append(trace,
                 Emit("players_eliminated", round_no, None, None, None, FALSE,
                      eliminated))
       ELSE /\ trace' = Append(trace,
                 Emit("no_elimination", round_no, None, None, None, FALSE,
                      <<>>))
            /\ UNCHANGED players
    /\ idx' = 1
    /\ pc' = "last_words"
    /\ UNCHANGED <<history, day_start_pid, current_speeches, runLocals,
                   dayLocals, nightLocals, alive_at_start, viewVars,
                   policyVars, outsideVars, answer>>

\* Last words of one eliminated participant.
LastWords(answers) ==
    /\ pc = "last_words"
    /\ idx <= Len(eliminated)
    /\ \E reply \in answers[eliminated[idx]] :
         LET player == get_player(eliminated[idx])
             speech == SpeechLog(player.pid, Muted(reply))
         IN  /\ answer' = Answer("last_words", player.pid, reply)
             /\ speeches' = Append(speeches, speech)
             /\ current_speeches' = Append(current_speeches, speech)
             /\ trace' = trace \o <<Query("last_words", player.pid, <<>>),
                                    SpeechAdded(speech)>>
    /\ idx' = idx + 1
    /\ UNCHANGED <<players, history, day_start_pid, pc, runLocals,
                   nominations, votes, eliminated, current_candidates,
                   previous_candidates, vote_counts, top, ordered_players,
                   yes_votes, nightLocals, alive_at_start, viewVars,
                   policyVars, outsideVars>>

\* Fault: the pointer moves to the next seat, alive or not.
NextSeat(first) == (first + 1) % NumPlayers

\* Fault: the search for the next start begins at the first speaker itself.
NextStartUnmoved(first) ==
    LET alive_after == {p \in Pids : players[p].alive /\ p >= first}
        alive_all == {p \in Pids : players[p].alive}
    IN  IF alive_after # {} THEN Min(alive_after)
        ELSE IF alive_all # {} THEN Min(alive_all)
        ELSE 0

\* The rotation pointer after a day whose first regular speaker was first.
NextStart(first) ==
    LET next_pid == first + 1
        alive_after == {p \in Pids : players[p].alive /\ p >= next_pid}
        alive_all == {p \in Pids : players[p].alive}
    IN  IF alive_after # {} THEN Min(alive_after)
        ELSE IF alive_all # {} THEN Min(alive_all)
        ELSE 0

\* The rotation pointer advances and day_phase returns its DayLog.
DayReturn ==
    /\ pc = "last_words"
    /\ idx > Len(eliminated)
    /\ day_start_pid' = IF ordered_players # <<>>
                        THEN NextStart(ordered_players[1])
                        ELSE day_start_pid
    /\ day_log' = Some(DayLog(speeches, votes,
                              IF eliminated # <<>> THEN Some(eliminated)
                              ELSE Nothing))
    /\ pc' = "day_returned"
    /\ UNCHANGED <<players, history, current_speeches, round_no, winner,
                   night_log, dayLocals, idx, nightLocals, alive_at_start,
                   trace, viewVars, policyVars, outsideVars, answer>>

----------------------------------------------------------------------------
(* Night phase *)

\* Fault: the dead mafia members are counted in.
AnyMafia == SelectSeq(PidSeq, LAMBDA p : is_mafia(players[p].role))

AliveMafia == SelectSeq(alive_players, LAMBDA p : is_mafia(players[p].role))

\* Fault: the first participant holding the role, dead or alive.
FirstWithRole(role) ==
    LET S == {p \in Pids : players[p].role = role}
    IN  IF S = {} THEN None ELSE Min(S)

\* The first alive participant holding the role, or None.
FirstAlive(role) ==
    LET S == {p \in Pids : players[p].alive /\ players[p].role = role}
    IN  IF S = {} THEN None ELSE Min(S)

Count(list, x) == Cardinality({i \in 1..Len(list) : list[i] = x})

\* max(set(suggestions), key=suggestions.count) over the non-null
\* suggestions.  max returns the first most frequent id the set hands out,
\* and the order in which a set hands out its elements is not defined by
\* the language (hash order in CPython, where {1, 8} starts with 8), so
\* every most frequent id is a possible result.
MostSuggested(suggestions) ==
    LET given == SelectSeq(suggestions, LAMBDA x : x # None)
    IN  IF given = <<>> THEN {None}
        ELSE {x \in Range(given) :
                \A y \in Range(given) : Count(given, x) >= Count(given, y)}

\* The list max(set(..)) is computed from.
NonNull(suggestions) == SelectSeq(suggestions, LAMBDA x : x # None)

\* Fault: the set is walked in a new order at every call.
ResolvedAnew(suggestions) == MostSuggested(suggestions)

\* What max(set(..)) can return now: the order in which a set hands out
\* its elements is not defined by the language but is a function of how
\* the set was built, so a list resolved before resolves the same way.
Resolved(suggestions) ==
    IF NonNull(suggestions) \in DOMAIN set_choice
    THEN {set_choice[NonNull(suggestions)]}
    ELSE MostSuggested(suggestions)

\* set_choice after the list has been resolved to target.
Remembered(suggestions, target) ==
    IF Cardinality(MostSuggested(suggestions)) > 1
    THEN set_choice @@ (NonNull(suggestions) :> target)
    ELSE set_choice

\* Player.alive = False for participant pid.
Eliminate(ps, pid) == [ps EXCEPT ![pid].alive = FALSE]

\* Fault: the delayed kill flips the flag of its target.
FlipDelayedKill(ps, target) ==
    IF target # None
    THEN [ps EXCEPT ![target].alive = ~ps[target].alive]
    ELSE ps

\* Fault: the delayed kill is never applied.
NoDelayedKill(ps, target) == ps

\* The delayed kill: a kill target still flagged alive dies now.
ApplyDelayedKill(ps, target) ==
    IF target # None /\ ps[target].alive THEN Eliminate(ps, target) ELSE ps

\* Fault: every victim dies at once.
DiesAtOnceAlways(victim) == victim.role \in Role

\* The kill takes effect at once unless the victim is the sheriff.
DiesAtOnce(victim) == victim.role # SHERIFF

\* The ids offered to a checker: every participant but the checker and
\* the kill target.
CheckCandidates(checker, target) ==
    SelectSeq(PidSeq, LAMBDA p : p # checker /\ p # target)

\* The answers of the kill policies that are asked: the don's alone, or
\* one of every alive mafia member.
KillAnswers(answers, mafia_players, don) ==
    IF don # None
    THEN {<<a>> : a \in answers[don]}
    ELSE {given \in [1..Len(mafia_players) -> UNION Range(
                        [i \in 1..Len(mafia_players) |->
                           answers[mafia_players[i]]])] :
            \A i \in 1..Len(mafia_players) :
               given[i] \in answers[mafia_players[i]]}

\* Fault: a resolved target counts as killed whether or not it was alive.
KillAppliesToAnyone(target) == target # None

\* `if kill is not None and self.is_alive(kill)`
KillApplies(target) == target # None /\ is_alive(target)

\* night_started, the mafia's kill decision and its immediate effect.
KillResolution(answers) ==
    /\ pc = "night_start"
    /\ alive_at_start' = AliveFlags
    /\ LET mafia_players == AliveMafia
           candidates == alive_players
           don == FirstAlive(DON)
           started == Emit("night_started", round_no, None, None, None, FALSE,
                           <<>>)
       IN  IF mafia_players = <<>>
           THEN /\ kill' = None
                /\ trace' = <<started,
                              Emit("mafia_kill", round_no, None, None, None,
                                   FALSE, <<>>)>>
                /\ UNCHANGED <<players, answer, set_choice>>
           ELSE \E given \in KillAnswers(answers, mafia_players, don) :
                \E target \in (IF don # None
                               THEN {given[1]}
                               ELSE Resolved(given)) :
                  LET asked == IF don # None
                               THEN <<Query("mafia_kill", don, candidates)>>
                               ELSE [i \in 1..Len(mafia_players) |->
                                       Query("mafia_kill", mafia_players[i],
                                             candidates)]
                  IN  /\ answer' = Answer("mafia_kill",
                                       IF don # None THEN don
                                       ELSE mafia_players[1],
                                       given)
                      /\ set_choice' = IF don # None THEN set_choice
                                       ELSE Remembered(given, target)
                      /\ kill' = target
                      /\ IF KillApplies(target)
                         THEN /\ players' =
                                   IF DiesAtOnce(get_player(target))
                                   THEN Eliminate(players, target)
                                   ELSE players
                              /\ trace' = <<started>> \o asked \o
                                   <<Emit("mafia_kill", round_no, None, None,
                                          target, TRUE, <<>>)>>
                         ELSE /\ UNCHANGED players
                              /\ trace' = <<started>> \o asked \o
                                   <<Emit("mafia_kill", round_no, None, None,
                                          target, FALSE, <<>>)>>
    /\ don_check' = Nothing
    /\ sheriff_check' = Nothing
    /\ pc' = "don_check"
    /\ UNCHANGED <<history, day_start_pid, current_speeches, runLocals,
                   dayLocals, idx, viewVars, policyVars, dispatcherVars,
                   callerVars>>

\* Fault: the mafia members alive at nightfall learn of the sheriff.
InformedAtNightfall(p) == alive_at_start[p] /\ is_mafia(players[p].role)

\* The participants whose policy learns of a sheriff the don has found.
Informed(p) == players[p].alive /\ is_mafia(players[p].role)

\* The don, if alive after the kill, investigates one participant.
DonCheck(answers) ==
    /\ pc = "don_check"
    /\ LET don == FirstAlive(DON)
       IN  IF don = None
           THEN UNCHANGED <<don_check, known_sheriff, trace, answer>>
           ELSE \E target \in answers[don] :
                  LET asked == Query("don_check", don,
                                     CheckCandidates(don, kill))
                      is_sheriff == get_player(target).role = SHERIFF
                  IN  /\ answer' = Answer("don_check", don, target)
                      /\ IF target = None
                         THEN /\ trace' = Append(trace, asked)
                              /\ UNCHANGED <<don_check, known_sheriff>>
                         ELSE
                           /\ known_sheriff' =
                                [p \in Pids |->
                                   IF is_sheriff /\ Informed(p)
                                   THEN target
                                   ELSE known_sheriff[p]]
                           /\ don_check' =
                                Some(DonCheckResult(don, target, is_sheriff))
                           /\ trace' = trace \o
                                <<asked, Emit("don_check", round_no, None, don,
                                              target, is_sheriff, <<>>)>>
    /\ pc' = "sheriff_check"
    /\ UNCHANGED <<players, history, day_start_pid, current_speeches,
                   runLocals, dayLocals, idx, kill, sheriff_check,
                   alive_at_start, viewVars, outsideVars>>

\* The sheriff, if still flagged alive, investigates one participant.
SheriffCheck(answers) ==
    /\ pc = "sheriff_check"
    /\ LET sheriff == FirstAlive(SHERIFF)
       IN  IF sheriff = None
           THEN UNCHANGED <<sheriff_check, trace, answer>>
           ELSE \E target \in answers[sheriff] :
                  LET asked == Query("sheriff_check", sheriff,
                                     CheckCandidates(sheriff, kill))
                      result == is_mafia(get_player(target).role)
                  IN  /\ answer' = Answer("sheriff_check", sheriff, target)
                      /\ IF target = None
                         THEN /\ trace' = Append(trace, asked)
                              /\ UNCHANGED sheriff_check
                         ELSE
                           /\ sheriff_check' =
                                Some(CheckResult(sheriff, target, result))
                           /\ trace' = trace \o
                                <<asked, Emit("sheriff_check", round_no, None,
                                              sheriff, target, result, <<>>)>>
    /\ pc' = "deferred"
    /\ UNCHANGED <<players, history, day_start_pid, current_speeches,
                   runLocals, dayLocals, idx, kill, don_check, alive_at_start,
                   viewVars, policyVars, outsideVars>>

\* The delayed kill is applied and night_phase returns its NightLog.
DeferredDeath ==
    /\ pc = "deferred"
    /\ players' = ApplyDelayedKill(players, kill)
    /\ night_log' = Some(NightLog(sheriff_check, don_check, kill))
    /\ kill' = None
    /\ don_check' = Nothing
    /\ sheriff_check' = Nothing
    /\ pc' = "night_returned"
    /\ UNCHANGED <<history, day_start_pid, current_speeches, round_no, winner,
                   day_log, dayLocals, idx, alive_at_start, trace, viewVars,
                   policyVars, outsideVars, answer>>

----------------------------------------------------------------------------
(* run *)

\* Fault: the lookup of a missing role is not noticed.
HasRoleOrNot(role) == TRUE

\* next(p.pid for p in self.players if p.role == role) finds somebody.
HasRole(role) == \E p \in Pids : players[p].role = role

\* The pid that lookup yields, None standing for no pid at all.
FirstOf(role) ==
    LET found == {p \in Pids : players[p].role = role}
    IN  IF found = {} THEN None ELSE Min(found)

\* Fault: the round is put in front of the history.
LoggedInFront(h, day, night) == <<RoundLog(day, night)>> \o h

\* self.history.append(RoundLog(day=day_log, night=night_log))
Logged(h, day, night) == Append(h, RoundLog(day, night))

\* Fault: only a mafia win counts as a decision.
DecidedForMafia(w) == w = MAFIA

\* Fault: the loop is left whatever check_win returned.
DecidedAnyway(w) == TRUE

\* `if winner` / `if not winner`: check_win returned a role.
Decided(w) == w # NoRole

\* run() up to its loop: the don and the sheriff are looked up, which fails
\* without them, and game_started is published.
RunStart ==
    /\ pc = "run"
    /\ IF HasRole(DON) /\ HasRole(SHERIFF)
       THEN /\ trace' = <<Emit("game_started", None, None,
                               FirstOf(DON), FirstOf(SHERIFF),
                               FALSE,
                               SelectSeq(PidSeq,
                                         LAMBDA p : players[p].role = MAFIA))>>
            /\ round_no' = 1
            /\ pc' = "day_start"
       ELSE /\ pc' = "failed"
            /\ UNCHANGED <<trace, round_no>>
    /\ UNCHANGED <<players, history, day_start_pid, current_speeches, winner,
                   day_log, night_log, dayLocals, idx, nightLocals,
                   alive_at_start, viewVars, policyVars, outsideVars, answer>>

\* The locals of the day_phase call that returned are gone.
DayLocalsDropped ==
    /\ speeches' = <<>>
    /\ nominations' = <<>>
    /\ votes' = <<>>
    /\ eliminated' = <<>>
    /\ current_candidates' = <<>>
    /\ previous_candidates' = <<>>
    /\ vote_counts' = <<>>
    /\ top' = <<>>
    /\ ordered_players' = <<>>
    /\ yes_votes' = 0
    /\ idx' = 1

\* The win check after the day: a decided game is logged without a night.
AfterDay ==
    /\ pc = "day_returned"
    /\ DayLocalsDropped
    /\ winner' = check_win
    /\ IF ~Decided(check_win)
       THEN /\ pc' = "night_start"
            /\ UNCHANGED <<history, day_log>>
       ELSE /\ history' = Logged(history, The(day_log), Nothing)
            /\ day_log' = Nothing
            /\ pc' = "returned"
    /\ UNCHANGED <<players, day_start_pid, current_speeches, round_no,
                   night_log, nightLocals, alive_at_start, trace, viewVars,
                   policyVars, outsideVars, answer>>

\* The win check after the night: the round is logged, then run returns
\* the winner or goes on to the next round.
AfterNight ==
    /\ pc = "night_returned"
    /\ winner' = check_win
    /\ history' = Logged(history, The(day_log), night_log)
    /\ day_log' = Nothing
    /\ night_log' = Nothing
    /\ IF Decided(check_win)
       THEN pc' = "returned" /\ UNCHANGED round_no
       ELSE pc' = "day_start" /\ round_no' = round_no + 1
    /\ UNCHANGED <<players, day_start_pid, current_speeches, dayLocals, idx,
                   nightLocals, alive_at_start, trace, viewVars, policyVars,
                   outsideVars, answer>>

----------------------------------------------------------------------------
(* History access *)

\* Fault: the night section is handed out as recorded.
VisibleNightUnredacted(role, night) == night

\* Fault: the roles are mixed up, each checker is shown the other's check.
VisibleNightSwapped(role, night) ==
    NightLog(IF role = DON /\ night.sheriff_check # Nothing
             THEN night.sheriff_check ELSE Nothing,
             IF role = SHERIFF /\ night.don_check # Nothing
             THEN night.don_check ELSE Nothing,
             night.kill)

\* The night section as the holder of role may see it.
VisibleNight(role, night) ==
    NightLog(IF role = SHERIFF /\ night.sheriff_check # Nothing
             THEN night.sheriff_check ELSE Nothing,
             IF role = DON /\ night.don_check # Nothing
             THEN night.don_check ELSE Nothing,
             night.kill)

\* Fault: the night section is dropped from the view.
HiddenNight(role, round_log) == RoundLog(round_log.day, Nothing)

VisibleRound(role, round_log) ==
    RoundLog(round_log.day,
             IF round_log.night # Nothing
             THEN Some(VisibleNight(role, The(round_log.night)))
             ELSE Nothing)

history_for(pid) ==
    [i \in 1..Len(history) |-> VisibleRound(get_player(pid).role, history[i])]

\* history_for(pid) is called between two rounds or after run ended.
HistoryFor ==
    /\ pc \in {"day_start", "returned"}
    /\ requester = None
    /\ \E pid \in Pids :
         /\ requester' = pid
         /\ visible' = history_for(pid)
    /\ pc' = "viewed"
    /\ UNCHANGED <<players, history, day_start_pid, current_speeches,
                   runLocals, dayLocals, idx, nightLocals, alive_at_start,
                   trace, policyVars, outsideVars, answer>>

----------------------------------------------------------------------------
(* The games played by run() *)

\* Every participant answers from the same set.
Each(S) == [p \in Pids |-> S]

\* Policy answers in the games played by run(): participant 0 may nominate
\* 2 and participant 1 may nominate 0 or 2; the even participants vote for
\* 2 and the odd ones abstain.
RunSpeak ==
    [p \in Pids |->
       IF p = 0 THEN SpeechAnswers({None, 2}, {NoClaims})
       ELSE IF p = 1 THEN SpeechAnswers({None, 0, 2}, {NoClaims})
       ELSE SpeechAnswers({None}, {NoClaims})]

RunWords == Each(SpeechAnswers({None, 0}, {NoClaims}))

\* The victim's morning answer may nominate participant 0 and may carry a
\* claim.
RunMorning ==
    [p \in Pids |-> SpeechAnswers({None, 0}, {NoClaims, SomeClaim(p)})]

RunVote == [p \in Pids |-> IF p % 2 = 0 THEN {2} ELSE {None}]

RunMassVote == Each(BOOLEAN)

RunKill == Each(OptPid)

RunDonCheck == Each({None, 0})

RunSheriffCheck == Each({None, 1})

Next ==
    \/ AddSpeech
    \/ RunStart
    \/ round_no <= MaxRounds /\ DayStart
    \/ PosthumousSpeech(RunMorning)
    \/ RegularSpeech(RunSpeak)
    \/ BeginVoting
    \/ CastVote(RunVote)
    \/ Tally
    \/ TieSpeech(RunWords)
    \/ AfterTieSpeeches
    \/ MassVote(RunMassVote)
    \/ MassDecide
    \/ ApplyElimination
    \/ LastWords(RunWords)
    \/ DayReturn
    \/ AfterDay
    \/ KillResolution(RunKill)
    \/ DonCheck(RunDonCheck)
    \/ SheriffCheck(RunSheriffCheck)
    \/ DeferredDeath
    \/ AfterNight
    \/ HistoryFor

Spec == Init /\ [][Next]_vars

----------------------------------------------------------------------------
(* day_phase(day_no) called on a freshly constructed game *)

InitDay ==
    /\ \E roles \in DayRosters : InitGame(ToPlayers(roles))
    /\ pc = "day_start"
    /\ round_no \in 1..MaxDayNo

\* A speaker nominates nobody or the next of the first MaxNominees
\* participants; participant 0 may also nominate participant 2.
DaySpeak ==
    [p \in Pids |->
       SpeechAnswers({None, (p + 1) % Min({MaxNominees, NumPlayers})} \cup
                       (IF p = 0 THEN {2} ELSE {}),
                     {NoClaims})]

DayWords == Each(SpeechAnswers({None, 0}, {NoClaims}))

DayVote == Each(OptPid)

DayMassVote == Each(BOOLEAN)

NextDay ==
    \/ DayStart
    \/ RegularSpeech(DaySpeak)
    \/ BeginVoting
    \/ CastVote(DayVote)
    \/ Tally
    \/ TieSpeech(DayWords)
    \/ AfterTieSpeeches
    \/ MassVote(DayMassVote)
    \/ MassDecide
    \/ ApplyElimination
    \/ LastWords(DayWords)
    \/ DayReturn

SpecDay == InitDay /\ [][NextDay]_vars

----------------------------------------------------------------------------
(* day_phase(1) on six participants of whom three are nominated, so that a *)
(* tie among three can narrow to a tie among two                           *)

TieRosters == {<<CIVILIAN, CIVILIAN, CIVILIAN, CIVILIAN, CIVILIAN, CIVILIAN>>}

InitTie ==
    /\ \E roles \in TieRosters : InitGame(ToPlayers(roles))
    /\ pc = "day_start"
    /\ round_no = 1

\* Participants 0 and 1 nominate 1 and 2, participant 2 may nominate 3.
TieSpeak ==
    [p \in Pids |->
       IF p = 0 THEN SpeechAnswers({1}, {NoClaims})
       ELSE IF p = 1 THEN SpeechAnswers({2}, {NoClaims})
       ELSE IF p = 2 THEN SpeechAnswers({None, 3}, {NoClaims})
       ELSE SpeechAnswers({None}, {NoClaims})]

\* Extra speeches and last words try to nominate participant 0.
TieWords == Each(SpeechAnswers({0}, {NoClaims}))

TieVote ==
    [p \in Pids |->
       IF p = 0 THEN {1, 3}
       ELSE IF p = 1 THEN {2}
       ELSE IF p = 2 THEN {3, 1}
       ELSE IF p = 3 THEN {1, 2}
       ELSE IF p = 4 THEN {2, None}
       ELSE {3, 2}]

TieMassVote == [p \in Pids |-> IF p <= 3 THEN BOOLEAN ELSE {TRUE}]

NextTie ==
    \/ DayStart
    \/ RegularSpeech(TieSpeak)
    \/ BeginVoting
    \/ CastVote(TieVote)
    \/ Tally
    \/ TieSpeech(TieWords)
    \/ AfterTieSpeeches
    \/ MassVote(TieMassVote)
    \/ MassDecide
    \/ ApplyElimination
    \/ LastWords(TieWords)
    \/ DayReturn

SpecTie == InitTie /\ [][NextTie]_vars

----------------------------------------------------------------------------
(* Long games of run(): few nominations, so that the rotation pointer walks *)
(* through the roster and the participant it names can die in the night    *)

LongRosters ==
    { <<DON, SHERIFF, CIVILIAN, CIVILIAN>>,
      <<DON, CIVILIAN, CIVILIAN, SHERIFF>> }

InitLong ==
    /\ \E roles \in LongRosters : InitGame(ToPlayers(roles))
    /\ pc = "run"
    /\ round_no = 0

\* Participant 0 may nominate 1 and participant 1 may nominate 2.
LongSpeak ==
    [p \in Pids |->
       IF p <= 1 THEN SpeechAnswers({None, p + 1}, {NoClaims})
       ELSE SpeechAnswers({None}, {NoClaims})]

LongWords == Each(SpeechAnswers({None}, {NoClaims}))

\* The even participants vote for 1, the odd ones for 2.
LongVote == [p \in Pids |-> IF p % 2 = 0 THEN {1} ELSE {2}]

LongMassVote == [p \in Pids |-> IF p = 0 THEN BOOLEAN ELSE {TRUE}]

\* The don kills nobody or one of the last two participants.
LongKill == Each({None, 2, 3})

LongCheck == Each({None})

NextLong ==
    \/ RunStart
    \/ round_no <= MaxLongRounds /\ DayStart
    \/ PosthumousSpeech(LongWords)
    \/ RegularSpeech(LongSpeak)
    \/ BeginVoting
    \/ CastVote(LongVote)
    \/ Tally
    \/ TieSpeech(LongWords)
    \/ AfterTieSpeeches
    \/ MassVote(LongMassVote)
    \/ MassDecide
    \/ ApplyElimination
    \/ LastWords(LongWords)
    \/ DayReturn
    \/ AfterDay
    \/ KillResolution(LongKill)
    \/ DonCheck(LongCheck)
    \/ SheriffCheck(LongCheck)
    \/ DeferredDeath
    \/ AfterNight

SpecLong == InitLong /\ [][NextLong]_vars

----------------------------------------------------------------------------
(* night_phase(night_no) called on a freshly constructed game *)

InitNight ==
    /\ \E roles \in NightRosters : InitGame(ToPlayers(roles))
    /\ pc = "night_start"
    /\ round_no = 1

\* The caller takes the NightLog and calls night_phase once more.
NightAgain ==
    /\ pc = "night_returned"
    /\ round_no < MaxNights
    /\ round_no' = round_no + 1
    /\ night_log' = Nothing
    /\ pc' = "night_start"
    /\ UNCHANGED <<players, history, day_start_pid, current_speeches, winner,
                   day_log, dayLocals, idx, nightLocals, alive_at_start,
                   trace, viewVars, policyVars, outsideVars, answer>>

NextNight ==
    \/ KillResolution(Each(OptPid))
    \/ DonCheck(Each(OptPid))
    \/ SheriffCheck(Each(OptPid))
    \/ DeferredDeath
    \/ NightAgain

SpecNight == InitNight /\ [][NextNight]_vars

----------------------------------------------------------------------------
(* run() twice on equal rosters with policies whose answers are fixed: the *)
(* don is voted out on the first day and the two remaining mafia members   *)
(* propose different victims                                               *)

TwiceRosters ==
    {<<DON, MAFIA, MAFIA, SHERIFF, CIVILIAN, CIVILIAN, CIVILIAN>>}

InitTwice ==
    /\ \E roles \in TwiceRosters : InitGame(ToPlayers(roles))
    /\ pc = "run"
    /\ round_no = 0

\* The even participants nominate 0, the odd ones 4.
TwiceSpeak ==
    [p \in Pids |-> SpeechAnswers({IF p % 2 = 0 THEN 0 ELSE 4}, {NoClaims})]

TwiceWords == Each(SpeechAnswers({None}, {NoClaims}))

TwiceVote == Each({0})

TwiceMassVote == Each({TRUE})

\* The don proposes 5, the first mafia member 6 and the second one 3.
TwiceKill == [p \in Pids |-> IF p = 0 THEN {5} ELSE IF p = 1 THEN {6} ELSE {3}]

TwiceDonCheck == Each({3})

TwiceSheriffCheck == Each({1})

\* The caller keeps what run() returned and calls run() on a new game
\* made of the same roster, with new policy objects, in the same
\* interpreter.
RunAgain ==
    /\ pc = "returned"
    /\ earlier = Nothing
    /\ earlier' = Some([history |-> history, winner |-> winner])
    /\ UNCHANGED <<db, logged>>
    /\ players' = [p \in Pids |-> Player(p, players[p].role)]
    /\ history' = <<>>
    /\ day_start_pid' = 0
    /\ current_speeches' = <<>>
    /\ winner' = NoRole
    /\ day_log' = Nothing
    /\ night_log' = Nothing
    /\ speeches' = <<>>
    /\ nominations' = <<>>
    /\ votes' = <<>>
    /\ eliminated' = <<>>
    /\ current_candidates' = <<>>
    /\ previous_candidates' = <<>>
    /\ vote_counts' = <<>>
    /\ top' = <<>>
    /\ ordered_players' = <<>>
    /\ idx' = 1
    /\ yes_votes' = 0
    /\ kill' = None
    /\ don_check' = Nothing
    /\ sheriff_check' = Nothing
    /\ alive_at_start' = [p \in Pids |-> TRUE]
    /\ trace' = <<>>
    /\ visible' = <<>>
    /\ requester' = None
    /\ known_sheriff' = [p \in Pids |-> None]
    /\ answer' = NoAnswer
    /\ pc' = "run"
    /\ round_no' = 0
    /\ UNCHANGED <<dispatcherVars, interpreterVars>>

NextTwice ==
    \/ RunStart
    \/ round_no <= MaxLongRounds /\ DayStart
    \/ PosthumousSpeech(TwiceWords)
    \/ RegularSpeech(TwiceSpeak)
    \/ BeginVoting
    \/ CastVote(TwiceVote)
    \/ Tally
    \/ ApplyElimination
    \/ LastWords(TwiceWords)
    \/ DayReturn
    \/ AfterDay
    \/ KillResolution(TwiceKill)
    \/ DonCheck(TwiceDonCheck)
    \/ SheriffCheck(TwiceSheriffCheck)
    \/ DeferredDeath
    \/ AfterNight
    \/ RunAgain

SpecTwice == InitTwice /\ [][NextTwice]_vars

----------------------------------------------------------------------------
(* run() on a game whose dispatcher has a handler that raises: the error   *)
(* leaves emit and, nothing catching it, the phase and run()               *)

\* The name under which the dispatcher gets an event of the trace.
EventName(ev) ==
    IF ev.name \in {"mafia_kill", "don_check", "sheriff_check"}
    THEN "night_action"
    ELSE ev.name

\* The event emitted first by the operation about to begin.
StartEvent ==
    IF pc = "run" THEN "game_started"
    ELSE IF pc = "day_start" THEN "day_started"
    ELSE IF pc = "night_start" THEN "night_started"
    ELSE "none"

StartFails == StartEvent \in EventNames /\ Raises(handlers[StartEvent])

\* The emissions of the phase in progress at which a handler raises.
FailingAt ==
    {i \in 1..Len(trace) :
       trace[i].kind = "emit" /\ Raises(handlers[EventName(trace[i])])}

\* The engine goes on only while no emission has raised.
Continue == FailingAt = {} /\ ~StartFails

\* The first emission of run(), day_phase() or night_phase() raises: the
\* operation has changed nothing yet.
StartRaises ==
    /\ StartFails
    /\ pc = "run" => HasRole(DON) /\ HasRole(SHERIFF)
    /\ trace' = <<Emit(StartEvent, round_no, None, None, None, FALSE, <<>>)>>
    /\ calls' = calls \o Invocations(StartEvent)
    /\ pc' = "raised"
    /\ UNCHANGED <<players, history, day_start_pid, current_speeches,
                   runLocals, dayLocals, idx, nightLocals, alive_at_start,
                   viewVars, policyVars, answer, handlers,
                   interpreterVars, callerVars>>

\* A later emission raises: what the engine stored before the emission
\* stays, the phase and run() are left and no RoundLog is appended.
HandlerRaises ==
    /\ pc # "raised"
    /\ FailingAt # {}
    /\ calls' = calls \o Invocations(EventName(trace[Min(FailingAt)]))
    /\ pc' = "raised"
    /\ UNCHANGED <<players, history, day_start_pid, current_speeches,
                   runLocals, dayLocals, idx, nightLocals, alive_at_start,
                   trace, viewVars, policyVars, answer, handlers,
                   interpreterVars, callerVars>>

\* One event name has a handler that raises and, subscribed after it, one
\* that does not.
InitRaise ==
    /\ \E e \in EventNames :
         InitGameWith(ToPlayers(<<DON, SHERIFF, CIVILIAN, CIVILIAN>>),
                      [NoHandlers EXCEPT ![e] = <<Handler("failing", TRUE),
                                                  Handler("later", FALSE)>>])
    /\ pc = "run"
    /\ round_no = 0

NextRaise ==
    \/ Continue /\ RunStart
    \/ Continue /\ round_no <= MaxRounds /\ DayStart
    \/ Continue /\ PosthumousSpeech(LongWords)
    \/ Continue /\ RegularSpeech(LongSpeak)
    \/ Continue /\ BeginVoting
    \/ Continue /\ CastVote(LongVote)
    \/ Continue /\ Tally
    \/ Continue /\ TieSpeech(LongWords)
    \/ Continue /\ AfterTieSpeeches
    \/ Continue /\ MassVote(LongMassVote)
    \/ Continue /\ MassDecide
    \/ Continue /\ ApplyElimination
    \/ Continue /\ LastWords(LongWords)
    \/ Continue /\ DayReturn
    \/ Continue /\ AfterDay
    \/ Continue /\ KillResolution(LongKill)
    \/ Continue /\ DonCheck(LongCheck)
    \/ Continue /\ SheriffCheck(LongCheck)
    \/ Continue /\ DeferredDeath
    \/ Continue /\ AfterNight
    \/ round_no <= MaxRounds /\ StartRaises
    \/ HandlerRaises

SpecRaise == InitRaise /\ [][NextRaise]_vars

----------------------------------------------------------------------------
(* An EventDispatcher used on its own: subscriptions and emissions in any *)
(* order                                                                  *)

SomeEvents == {"speech_added", "vote_cast"}

SomeHandlers ==
    {Handler("first", FALSE), Handler("second", FALSE), Handler("failing", TRUE)}

Subscriptions ==
    LET S[E \in SUBSET EventNames] ==
          IF E = {} THEN 0
          ELSE LET e == CHOOSE x \in E : TRUE
               IN  Len(handlers[e]) + S[E \ {e}]
    IN  S[EventNames]

InitEvents ==
    /\ InitGame(ToPlayers(<<>>))
    /\ pc = "dispatcher"
    /\ round_no = 0

NextEvents ==
    \/ \E e \in SomeEvents, h \in SomeHandlers :
         Subscriptions < MaxSubscriptions /\ Subscribe(e, h)
    \/ \E e \in SomeEvents :
         Len(trace) < MaxEmits /\ EmitEvent(e)

SpecEvents == InitEvents /\ [][NextEvents]_vars

----------------------------------------------------------------------------
(* check_win() called on a game whose participants may already be dead *)

AnyRosters == UNION {[1..n -> Role] : n \in 0..MaxPlayers}

InitWin ==
    /\ \E roles \in AnyRosters :
         \E dead \in SUBSET (0..(Len(roles) - 1)) :
           InitGame([p \in 0..(Len(roles) - 1) |->
                       [pid |-> p, role |-> roles[p + 1],
                        alive |-> p \notin dead]])
    /\ pc = "check_win"
    /\ round_no = 0

CheckWin ==
    /\ pc = "check_win"
    /\ winner' = check_win
    /\ pc' = "checked"
    /\ UNCHANGED <<players, history, day_start_pid, current_speeches, round_no,
                   day_log, night_log, dayLocals, idx, nightLocals,
                   alive_at_start, trace, viewVars, policyVars, outsideVars,
                   answer>>

NextWin == CheckWin

SpecWin == InitWin /\ [][NextWin]_vars

----------------------------------------------------------------------------
(* Properties of the day phase, checked under SpecDay *)

AliveAtStart == {p \in DOMAIN alive_at_start : alive_at_start[p]}

\* How often the policy `name` of participant p was asked in this phase.
Asked(name, p) == Cardinality({i \in Queried(name) : trace[i].who = p})

MassVoteInfo == {i \in Emitted("info") :
                   trace[i].list = <<"revote tie, voting on elimination">>}

MassVoteHeld == MassVoteInfo # {}

AfterVoting == pc \in {"apply", "last_words", "day_returned"}

\* C1: the mass-elimination vote is held exactly when a revote ties on the
\* set of the previous tie; every participant alive is then asked yes/no
\* exactly once, the tied candidates are all eliminated iff twice the yes
\* votes exceed the number of alive participants and nobody is otherwise,
\* and no voting round follows.
C1_MassElimination ==
    /\ AfterVoting =>
         (MassVoteHeld <=> SameTie(previous_candidates, top))
    /\ pc = "mass_vote" => SameTie(previous_candidates, top)
    /\ (AfterVoting /\ MassVoteHeld) =>
         /\ \A p \in Pids :
              Asked("vote_elimination", p) = IF p \in AliveAtStart THEN 1 ELSE 0
         /\ Len(top) >= 2
         /\ eliminated = IF 2 * yes_votes > Cardinality(AliveAtStart)
                         THEN top
                         ELSE <<>>
    /\ MassVoteHeld =>
         /\ pc \notin {"voting", "tie_speeches"}
         /\ Cardinality(MassVoteInfo) = 1
         /\ \A i \in Emitted("info") \cup Emitted("vote_cast") \cup
                     Queried("vote") :
              \A j \in MassVoteInfo : i <= j

\* Exactly half of the alive participants said yes and nobody was eliminated.
C1_Witness ==
    /\ pc = "day_returned"
    /\ MassVoteHeld
    /\ yes_votes > 0
    /\ 2 * yes_votes = Cardinality(AliveAtStart)
    /\ The(day_log).eliminated = Nothing
    /\ AliveFlags = alive_at_start

\* The votes recorded in the voting round in progress.
RoundVotes == SubSeq(votes, Len(votes) - (idx - 1) + 1, Len(votes))

\* C2: with candidates present, a vote answered with null or with a
\* non-candidate is recorded, and published in vote_cast, as a vote for the
\* last current candidate, and an answer naming a candidate is kept; every
\* vote of the round targets a current candidate and none is an abstention.
C2_ForcedVote ==
    /\ ( /\ answer.query = "vote"
         /\ Last(trace).name = "vote_cast"
         /\ current_candidates # <<>> ) =>
         LET expected == IF answer.value \in Range(current_candidates)
                         THEN answer.value
                         ELSE Last(current_candidates)
         IN  /\ Last(votes) = Vote(answer.who, expected)
             /\ Last(trace).who = answer.who
             /\ Last(trace).target = expected
    /\ pc = "voting" =>
         /\ Len(RoundVotes) = idx - 1
         /\ \A i \in 1..Len(RoundVotes) :
              /\ RoundVotes[i].target # None
              /\ RoundVotes[i].target \in Range(current_candidates)
    /\ \A i \in Emitted("vote_cast") : trace[i].target # None

\* An abstention with two candidates went to the last of them.
C2_Witness ==
    /\ pc = "voting"
    /\ answer.query = "vote"
    /\ answer.value = None
    /\ Len(current_candidates) >= 2
    /\ Last(trace).name = "vote_cast"
    /\ Last(trace).target = Last(current_candidates)
    /\ Last(votes).target = Last(current_candidates)

\* C3: with no nomination at all, day_phase records one Vote with a null
\* target for every alive participant, publishes one vote_cast with a null
\* target each, and eliminates nobody.
C3_AbstentionsRecorded ==
    (pc = "day_returned" /\ nominations = <<>>) =>
       /\ Len(votes) = Cardinality(AliveAtStart)
       /\ \A i \in 1..Len(votes) : votes[i].target = None
       /\ Cardinality(Emitted("vote_cast")) = Cardinality(AliveAtStart)
       /\ The(day_log).eliminated = Nothing

\* What day_phase does with no nomination: no vote is recorded or published,
\* no policy is asked to vote, and nobody is eliminated.
C3_NoVoteAtAll ==
    (AfterVoting /\ nominations = <<>>) =>
       /\ votes = <<>>
       /\ Emitted("vote_cast") = {}
       /\ Queried("vote") = {}
       /\ eliminated = <<>>

\* C4: on day 1 a single nomination means no vote: the DayLog holds no vote
\* record, no vote policy was asked, nobody is eliminated and everybody alive
\* before the day still is.  On a later day a single nomination is voted on:
\* every alive participant votes and the nominee is eliminated.
C4_SingleNomination ==
    /\ (pc = "day_returned" /\ round_no = 1 /\ Len(nominations) = 1) =>
         /\ The(day_log).votes = <<>>
         /\ The(day_log).eliminated = Nothing
         /\ Queried("vote") = {}
         /\ Queried("vote_elimination") = {}
         /\ Emitted("vote_cast") = {}
         /\ Emitted("players_eliminated") = {}
         /\ AliveFlags = alive_at_start
    /\ (pc = "day_returned" /\ round_no > 1 /\ Len(nominations) = 1) =>
         /\ Len(The(day_log).votes) = Cardinality(AliveAtStart)
         /\ \A p \in Pids :
              Asked("vote", p) = IF p \in AliveAtStart THEN 1 ELSE 0
         /\ The(day_log).eliminated = Some(nominations)
         /\ ~is_alive(nominations[1])

\* Day 1 returned with one nomination and an empty vote list.
C4_Witness ==
    /\ pc = "day_returned"
    /\ round_no = 1
    /\ Len(nominations) = 1
    /\ The(day_log).votes = <<>>
    /\ The(day_log).eliminated = Nothing

----------------------------------------------------------------------------
(* Properties of the night phase, checked under SpecNight *)

InNight == pc \in {"don_check", "sheriff_check", "deferred"}

\* The kill of this night went for a participant alive when it began.
Victim(k) == k # None /\ alive_at_start[k]

\* C5: a sheriff alive at nightfall and chosen as the kill target keeps the
\* alive flag through kill resolution, the don check and the sheriff check,
\* is asked for a check, and is dead when night_phase returns; any other
\* alive kill target is dead as soon as the kill is resolved.
C5_DeferredSheriffDeath ==
    /\ (InNight /\ Victim(kill) /\ players[kill].role = SHERIFF) =>
         /\ players[kill].alive
         /\ pc = "deferred" => Asked("sheriff_check", kill) = 1
    /\ (InNight /\ Victim(kill) /\ players[kill].role # SHERIFF) =>
         ~players[kill].alive
    /\ pc = "night_returned" =>
         LET k == The(night_log).kill
         IN  Victim(k) =>
               /\ ~players[k].alive
               /\ players[k].role = SHERIFF => Asked("sheriff_check", k) = 1
    /\ (InNight \/ pc = "night_returned") =>
         \A p \in Pids :
           (alive_at_start[p] /\ ~players[p].alive) =>
              p = IF InNight THEN kill ELSE The(night_log).kill

\* The sheriff was chosen, has made the check and is still flagged alive.
C5_Witness ==
    /\ pc = "deferred"
    /\ Victim(kill)
    /\ players[kill].role = SHERIFF
    /\ players[kill].alive
    /\ sheriff_check # Nothing
    /\ The(sheriff_check).checker = kill

NightEvents(name) == Emitted(name) \cup Queried(name)

AliveWithRole(role) == {p \in Pids : players[p].alive /\ players[p].role = role}

\* C6: the night runs kill resolution, don check, sheriff check, deferred
\* death in that order: one mafia_kill event precedes every query and event
\* of the don check, these precede every query and event of the sheriff
\* check, and the don is asked iff a don is alive once the kill is resolved.
C6_NightOrder ==
    /\ (InNight \/ pc = "night_returned") =>
         /\ Cardinality(Emitted("mafia_kill")) = 1
         /\ \A i \in NightEvents("mafia_kill") :
              \A j \in NightEvents("don_check") \cup
                       NightEvents("sheriff_check") : i < j
         /\ \A i \in NightEvents("don_check") :
              \A j \in NightEvents("sheriff_check") : i < j
    /\ pc = "don_check" =>
         NightEvents("don_check") \cup NightEvents("sheriff_check") = {}
    /\ pc = "sheriff_check" => NightEvents("sheriff_check") = {}
    /\ pc \in {"sheriff_check", "deferred"} =>
         /\ Queried("don_check") # {} <=> AliveWithRole(DON) # {}
         /\ \A i \in NightEvents("don_check") :
              trace[i].who \in AliveWithRole(DON)
    /\ pc = "deferred" =>
         /\ Queried("sheriff_check") # {} <=> AliveWithRole(SHERIFF) # {}
         /\ (Victim(kill) /\ players[kill].role = SHERIFF) =>
              players[kill].alive

\* A night in which the kill and both checks were published.
C6_Witness ==
    /\ pc = "night_returned"
    /\ Emitted("mafia_kill") # {}
    /\ Emitted("don_check") # {}
    /\ Emitted("sheriff_check") # {}
    /\ The(night_log).kill # None

----------------------------------------------------------------------------
(* Property of the win check, checked under SpecWin *)

AliveOf(roles) == Cardinality({p \in Pids : players[p].alive /\
                                            players[p].role \in roles})

\* C7: check_win is decided by the number of alive MAFIA and DON and the
\* number of alive CIVILIAN and SHERIFF: civilians win with no mafia left,
\* also with nobody left; otherwise the mafia wins when it is at least as
\* numerous; otherwise the game is undecided.
C7_CheckWin ==
    pc = "checked" =>
       LET m == AliveOf({MAFIA, DON})
           c == AliveOf({CIVILIAN, SHERIFF})
       IN  /\ m = 0 => winner = CIVILIAN
           /\ (m >= 1 /\ m >= c) => winner = MAFIA
           /\ (m >= 1 /\ m < c) => winner = NoRole

\* As many alive mafia members as alive civilians: the mafia wins.
C7_Witness ==
    /\ pc = "checked"
    /\ AliveOf({MAFIA, DON}) = 2
    /\ AliveOf({CIVILIAN, SHERIFF}) = 2
    /\ winner = MAFIA

----------------------------------------------------------------------------
(* Properties of history_for and of the alive flags, checked under Spec *)

Viewed == pc = "viewed"

\* C8: the view holds a sheriff_check only for a requester whose role is
\* SHERIFF and a don_check only for a requester whose role is DON.
C8_Redaction ==
    Viewed =>
       \A i \in 1..Len(visible) :
          visible[i].night # Nothing =>
             /\ players[requester].role # SHERIFF =>
                  The(visible[i].night).sheriff_check = Nothing
             /\ players[requester].role # DON =>
                  The(visible[i].night).don_check = Nothing

\* A civilian looked at a history whose night holds both checks.
C8_Witness ==
    /\ Viewed
    /\ players[requester].role = CIVILIAN
    /\ \E i \in 1..Len(history) :
         /\ history[i].night # Nothing
         /\ The(history[i].night).sheriff_check # Nothing
         /\ The(history[i].night).don_check # Nothing
         /\ The(visible[i].night).sheriff_check = Nothing
         /\ The(visible[i].night).don_check = Nothing

\* C9: the view has one RoundLog per round of the history, in order, with
\* the day section and the kill target as recorded and no night where none
\* was recorded; the sheriff gets every sheriff_check and the don every
\* don_check.
C9_ViewKeeps ==
    Viewed =>
       /\ Len(visible) = Len(history)
       /\ \A i \in 1..Len(history) :
            /\ visible[i].day = history[i].day
            /\ visible[i].night = Nothing <=> history[i].night = Nothing
            /\ history[i].night # Nothing =>
                 LET seen == The(visible[i].night)
                     night == The(history[i].night)
                 IN  /\ seen.kill = night.kill
                     /\ players[requester].role = SHERIFF =>
                          seen.sheriff_check = night.sheriff_check
                     /\ players[requester].role = DON =>
                          seen.don_check = night.don_check

\* The sheriff looked at two rounds, the first with a check of theirs and
\* the second without a night.
C9_Witness ==
    /\ Viewed
    /\ players[requester].role = SHERIFF
    /\ Len(history) = 2
    /\ The(visible[1].night).sheriff_check # Nothing
    /\ The(visible[1].night).sheriff_check =
         The(history[1].night).sheriff_check
    /\ history[2].night = Nothing
    /\ visible[2].day.votes # <<>>

\* C10: no step of the engine turns a false alive flag true again, and no
\* step changes the role or the id of a participant or the roster.
C10_AliveMonotonic ==
    [][/\ DOMAIN players' = DOMAIN players
       /\ \A p \in DOMAIN players :
            /\ ~players[p].alive => ~players'[p].alive
            /\ players'[p].role = players[p].role
            /\ players'[p].pid = players[p].pid]_vars

\* The kill went for a participant who was dead already and stayed dead.
C10_Witness ==
    /\ pc = "night_returned"
    /\ The(night_log).kill # None
    /\ ~alive_at_start[The(night_log).kill]
    /\ ~players[The(night_log).kill].alive

----------------------------------------------------------------------------
(* Properties of run, checked under Spec *)

IsPrefix(h, g) == Len(h) <= Len(g) /\ SubSeq(g, 1, Len(h)) = h

\* The rounds run() has completed: all but the one in progress.
RoundsDone == IF pc \in {"run", "failed"} THEN 0
              ELSE IF winner # NoRole THEN round_no
              ELSE round_no - 1

\* C11: the history only grows at its end: a step leaves it alone or adds
\* one RoundLog behind the rounds already there, which happens once per
\* round, after its day (and its night if one was played); the history
\* holds one RoundLog per completed round.
C11_AppendOnly ==
    /\ [](Len(history) = RoundsDone)
    /\ [][/\ IsPrefix(history, history')
          /\ Len(history') <= Len(history) + 1
          /\ history' # history =>
               /\ pc \in {"day_returned", "night_returned"}
               /\ Last(history').day = The(day_log)
               /\ Last(history').night =
                    IF pc = "night_returned" THEN night_log ELSE Nothing]_vars

\* Two rounds are logged, the first one unchanged behind the second.
C11_Witness ==
    /\ pc = "returned"
    /\ Len(history) = 2
    /\ history[1].night # Nothing
    /\ history[1] # history[2]

\* C12: a RoundLog lacks its night iff the win check after its day found a
\* winner, so only the last RoundLog of a finished game can lack it; run
\* returns exactly when the win check after a day or a night finds a winner,
\* and the winner returned is check_win of the final state.
C12_NightOmitted ==
    /\ [](\A i \in 1..Len(history) :
            history[i].night = Nothing =>
               i = Len(history) /\ winner # NoRole)
    /\ [](pc = "returned" => winner # NoRole /\ winner = check_win)
    /\ [](pc \in {"day_start", "night_start"} => winner = NoRole)
    /\ [][/\ pc = "day_returned" =>
               IF check_win # NoRole
               THEN /\ pc' = "returned"
                    /\ Len(history') = Len(history) + 1
                    /\ Last(history').night = Nothing
               ELSE pc' = "night_start" /\ history' = history
          /\ pc = "night_returned" =>
               /\ Len(history') = Len(history) + 1
               /\ Last(history').night # Nothing
               /\ pc' = IF check_win # NoRole THEN "returned"
                        ELSE "day_start"
          /\ pc' = "returned" => pc \in {"day_returned", "night_returned"}]_vars

\* The game was decided by the second day: its RoundLog has no night.
C12_Witness ==
    /\ pc = "returned"
    /\ Len(history) = 2
    /\ history[1].night # Nothing
    /\ history[2].night = Nothing
    /\ winner = check_win

----------------------------------------------------------------------------
(* Properties of the tie escalation, checked under SpecTie *)

VotesFor(c) == Cardinality({i \in 1..Len(RoundVotes) : RoundVotes[i].target = c})

\* The current candidates nobody got more votes than.
Leaders == {c \in Range(current_candidates) :
              \A other \in Range(current_candidates) :
                 VotesFor(c) >= VotesFor(other)}

InNominationOrder(S) == SelectSeq(nominations, LAMBDA c : c \in S)

TieInfo == {i \in Emitted("info") : trace[i].list = <<"tie detected, revoting">>}

VotingInfo == {i \in Emitted("info") : trace[i].list = <<"voting">>}

\* C13: a voting round with a unique leader eliminates that candidate alone
\* and leaves the loop; otherwise the leaders are the tied set; unless the
\* tied set repeats the previous one, the next round's candidates are
\* exactly the tied set in nomination order, and a tied set that follows
\* another is a strict subset of it.
C13_Escalation ==
    [][/\ (pc = "voting" /\ pc' # "voting") =>
            IF Cardinality(Leaders) = 1
            THEN /\ pc' = "apply"
                 /\ eliminated' = InNominationOrder(Leaders)
                 /\ Len(eliminated') = 1
            ELSE /\ pc' = "tie_speeches"
                 /\ top' = InNominationOrder(Leaders)
                 /\ eliminated' = <<>>
       /\ (pc = "tie_speeches" /\ pc' # "tie_speeches") =>
            IF /\ previous_candidates # <<>>
               /\ Range(top) = Range(previous_candidates)
            THEN pc' = "mass_vote"
            ELSE /\ pc' = "voting"
                 /\ current_candidates' = InNominationOrder(Range(top))
                 /\ previous_candidates' = top
                 /\ Range(top) \subseteq Range(current_candidates)
                 /\ previous_candidates # <<>> =>
                      /\ Range(top) \subseteq Range(previous_candidates)
                      /\ Range(top) # Range(previous_candidates)]_vars

\* The third voting round: a tie among three narrowed to a tie among two.
C13_Witness ==
    /\ pc = "voting"
    /\ Len(nominations) = 3
    /\ Cardinality(TieInfo) = 2
    /\ Len(current_candidates) = 2
    /\ previous_candidates = current_candidates

\* The speeches published since the last vote was cast.
SpeechesSinceVote ==
    {i \in Emitted("speech_added") : \A j \in Emitted("vote_cast") : j < i}

\* C14: on a tie each tied candidate gives one extra speech, in nomination
\* order, recorded without nomination and adding none, and then the revote
\* is run; a revote tying on the same set is followed directly by the
\* mass-elimination vote, so a day has as many rounds of extra speeches as
\* revotes.
C14_ExtraSpeeches ==
    /\ (pc = "tie_speeches" /\ idx > Len(TieSpeakers)) =>
         /\ TieSpeakers = InNominationOrder(Range(top))
         /\ \A k \in 1..Len(top) :
              LET speech == speeches[Len(speeches) - Len(top) + k]
              IN  /\ speech.speaker = TieSpeakers[k]
                  /\ speech.action.nomination = None
         /\ 0 \notin Range(nominations)
    /\ (pc = "mass_vote" /\ idx = 1) => SpeechesSinceVote = {}
    /\ AfterVoting =>
         Cardinality(TieInfo) = Max({Cardinality(VotingInfo) - 1, 0})

----------------------------------------------------------------------------
(* Properties of the kill decision, checked under SpecNight *)

AliveSeqAtStart == SelectSeq(PidSeq, LAMBDA p : alive_at_start[p])

\* The participants of these roles alive when the night began.
AtNightfall(roles) == {p \in Pids : alive_at_start[p] /\ players[p].role \in roles}

KillResolved == pc = "don_check"

Proposals == {answer.value[i] : i \in 1..Len(answer.value)} \ {None}

\* C15: with a don alive at nightfall only the don is asked for the kill,
\* is offered all alive participants, and the kill is the don's answer;
\* with mafia members but no don alive, each alive mafia member is asked
\* once and the kill is a most frequent non-null proposal, or none if all
\* proposals are null; with no mafia member alive nobody is asked.
C15_KillDecision ==
    KillResolved =>
       /\ \A i \in Queried("mafia_kill") : trace[i].list = AliveSeqAtStart
       /\ AtNightfall({DON}) # {} =>
            /\ \A p \in Pids :
                 Asked("mafia_kill", p) =
                    IF p = Min(AtNightfall({DON})) THEN 1 ELSE 0
            /\ answer.query = "mafia_kill"
            /\ answer.who = Min(AtNightfall({DON}))
            /\ kill = answer.value[1]
       /\ (AtNightfall({DON}) = {} /\ AtNightfall({MAFIA}) # {}) =>
            /\ \A p \in Pids :
                 Asked("mafia_kill", p) =
                    IF p \in AtNightfall({MAFIA}) THEN 1 ELSE 0
            /\ answer.query = "mafia_kill"
            /\ Len(answer.value) = Cardinality(AtNightfall({MAFIA}))
            /\ IF Proposals = {}
               THEN kill = None
               ELSE /\ kill \in Proposals
                    /\ \A x \in Proposals :
                         Count(answer.value, kill) >= Count(answer.value, x)
       /\ AtNightfall({DON, MAFIA}) = {} =>
            /\ Queried("mafia_kill") = {}
            /\ kill = None

\* Two mafia members without a don: one proposed nobody, the other's
\* proposal is the kill.
C15_Witness ==
    /\ KillResolved
    /\ AtNightfall({DON}) = {}
    /\ Cardinality(AtNightfall({MAFIA})) = 2
    /\ answer.query = "mafia_kill"
    /\ answer.value[1] = None
    /\ answer.value[2] # None
    /\ kill = answer.value[2]

\* C16: without a don, among equally frequent proposals the kill is the
\* lowest participant id of the most frequent ones.
C16_LowestIdWins ==
    ( /\ KillResolved
      /\ AtNightfall({DON}) = {}
      /\ AtNightfall({MAFIA}) # {}
      /\ Proposals # {} ) =>
       kill = Min({x \in Proposals :
                     \A y \in Proposals :
                        Count(answer.value, x) >= Count(answer.value, y)})

----------------------------------------------------------------------------
(* Properties of the morning speech, checked under Spec *)

\* The kill recorded by the previous round's NightLog, if any.
RecordedKill ==
    IF history = <<>> THEN None
    ELSE IF Last(history).night = Nothing THEN None
    ELSE The(Last(history).night).kill

InDay == pc \in {"speeches", "voting", "tie_speeches", "mass_vote", "apply",
                 "last_words", "day_returned"}

BeforeRegularSpeeches == pc = "speeches" /\ idx = 1

\* C17: when the previous round recorded a kill, the day's first speech is
\* the victim's, asked through last_words while the victim is dead; it is
\* recorded with a null nomination and the policy's claims, published by
\* speech_added, and leaves the nomination list empty.  Without a recorded
\* kill the regular speeches come first.
C17_MorningSpeech ==
    /\ BeforeRegularSpeeches =>
          IF RecordedKill # None
          THEN /\ ~is_alive(RecordedKill)
               /\ ~alive_at_start[RecordedKill]
               /\ answer = Answer("last_words", RecordedKill, answer.value)
               /\ speeches = <<SpeechLog(RecordedKill,
                                 SpeechAction(None, answer.value.claims))>>
               /\ current_speeches = speeches
               /\ nominations = <<>>
               /\ Len(trace) = 3
               /\ trace[2] = Query("last_words", RecordedKill, <<>>)
               /\ trace[3] = Emit("speech_added", round_no, 0, RecordedKill,
                                  None, FALSE, answer.value.claims)
          ELSE /\ speeches = <<>>
               /\ nominations = <<>>
               /\ Len(trace) = 1
    /\ (InDay /\ Len(trace) >= 2) =>
          /\ trace[1].name = "day_started"
          /\ trace[2].name = IF RecordedKill # None THEN "last_words"
                             ELSE "speak"
          /\ RecordedKill # None =>
               /\ speeches[1].speaker = RecordedKill
               /\ speeches[1].action.nomination = None
          /\ (RecordedKill = None /\ speeches # <<>>) =>
               /\ alive_at_start[speeches[1].speaker]
               /\ speeches[1].speaker = ordered_players[1]

\* The victim's policy nominated somebody and made a claim: the speech
\* keeps the claim and nobody is nominated.
C17_Witness ==
    /\ BeforeRegularSpeeches
    /\ RecordedKill # None
    /\ answer.query = "last_words"
    /\ answer.value.nomination # None
    /\ answer.value.claims # <<>>
    /\ speeches[1].action.claims = answer.value.claims
    /\ nominations = <<>>

----------------------------------------------------------------------------
(* Properties of the last words, checked under SpecDay *)

AfterElimination == pc \in {"last_words", "day_returned"}

\* How many of the eliminated have spoken their last words.
WordsGiven == idx - 1

\* Position in the trace of the outcome of the vote.
Outcome == Emitted("players_eliminated") \cup Emitted("no_elimination")

\* C18: once the vote's outcome is applied, the eliminated are dead and
\* listed in nomination order; after players_eliminated they are asked for
\* their last words one by one in that order, each speech recorded with a
\* null nomination at the end of the day's speeches; when the day returns
\* everyone eliminated has spoken once, and a day without elimination has
\* no last words.
C18_LastWords ==
    AfterElimination =>
       /\ Cardinality(Outcome) = 1
       /\ eliminated = InNominationOrder(Range(eliminated))
       /\ \A p \in Range(eliminated) : ~is_alive(p)
       /\ pc = "day_returned" => WordsGiven = Len(eliminated)
       /\ \A p \in Pids :
            Asked("last_words", p) =
               IF p \in {eliminated[j] : j \in 1..WordsGiven} THEN 1 ELSE 0
       /\ IF eliminated = <<>>
          THEN /\ Emitted("no_elimination") # {}
               /\ Last(trace).name = "no_elimination"
          ELSE LET e == CHOOSE i \in Outcome : TRUE
                   before == Len(speeches) - WordsGiven
               IN  /\ trace[e].name = "players_eliminated"
                   /\ trace[e].list = eliminated
                   /\ Len(trace) = e + 2 * WordsGiven
                   /\ before >= 0
                   /\ \A j \in 1..WordsGiven :
                        /\ trace[e + 2 * j - 1] =
                              Query("last_words", eliminated[j], <<>>)
                        /\ trace[e + 2 * j].name = "speech_added"
                        /\ trace[e + 2 * j].who = eliminated[j]
                        /\ trace[e + 2 * j].target = None
                        /\ speeches[before + j].speaker = eliminated[j]
                        /\ speeches[before + j].action.nomination = None
       /\ pc = "day_returned" =>
            /\ The(day_log).speeches = speeches
            /\ The(day_log).eliminated =
                 IF eliminated = <<>> THEN Nothing ELSE Some(eliminated)

\* Two participants were eliminated together and both have spoken; the
\* second one's policy tried to nominate.
C18_Witness ==
    /\ pc = "day_returned"
    /\ Len(eliminated) = 2
    /\ answer.query = "last_words"
    /\ answer.who = eliminated[2]
    /\ answer.value.nomination # None
    /\ Last(speeches).speaker = eliminated[2]

----------------------------------------------------------------------------
(* Properties of the speaking order, checked under SpecLong *)

\* The alive participant the regular speeches have to start with.
FirstSpeaker ==
    LET alive == AliveAtStart
        later == {p \in alive : p >= day_start_pid}
    IN  IF later # {} THEN Min(later) ELSE Min(alive)

\* The participants alive at the start of the day in ascending order from
\* FirstSpeaker, those below it after those above it.
SpeakingOrder ==
    IF AliveAtStart = {} THEN <<>>
    ELSE SelectSeq(AliveSeqAtStart, LAMBDA p : p >= FirstSpeaker) \o
         SelectSeq(AliveSeqAtStart, LAMBDA p : p < FirstSpeaker)

\* The day's speeches without the morning speech of the night's victim.
RegularSpeeches == IF RecordedKill # None THEN Tail(speeches) ELSE speeches

Speakers(k) == [j \in 1..k |-> RegularSpeeches[j].speaker]

\* C19: during the regular speeches the participants who have spoken are
\* an initial part of the cyclic ascending order of those alive at the
\* start of the day, begun at the smallest alive id >= the rotation
\* pointer or else at the smallest alive id, each asked once; when the
\* stage is over all of them have spoken.
C19_SpeakingOrder ==
    /\ pc = "speeches" =>
          /\ idx - 1 <= Len(SpeakingOrder)
          /\ Len(RegularSpeeches) = idx - 1
          /\ Speakers(idx - 1) = SubSeq(SpeakingOrder, 1, idx - 1)
          /\ \A p \in Pids :
               Asked("speak", p) =
                  IF p \in Range(Speakers(idx - 1)) THEN 1 ELSE 0
    /\ pc \in {"voting", "tie_speeches", "mass_vote", "apply"} =>
          /\ Len(RegularSpeeches) >= Len(SpeakingOrder)
          /\ Speakers(Len(SpeakingOrder)) = SpeakingOrder
          /\ Range(SpeakingOrder) = AliveAtStart
          /\ Len(SpeakingOrder) = Cardinality(AliveAtStart)

\* The participant named by the pointer died in the night and nobody alive
\* has a higher id: the speeches started again from the smallest alive id
\* and everybody has spoken.
C19_Witness ==
    /\ pc = "apply"
    /\ ~alive_at_start[day_start_pid]
    /\ \A p \in AliveAtStart : p < day_start_pid
    /\ Cardinality(AliveAtStart) >= 2
    /\ RegularSpeeches[1].speaker = Min(AliveAtStart)

\* The pointer named an alive participant above the smallest alive id.
C19_MidStart ==
    /\ pc = "apply"
    /\ alive_at_start[0]
    /\ day_start_pid > 0
    /\ RegularSpeeches[1].speaker = day_start_pid
    /\ Last(SpeakingOrder) < day_start_pid

----------------------------------------------------------------------------
(* Properties of the rotation pointer, checked under SpecDay *)

AliveNow == {p \in Pids : is_alive(p)}

\* The alive participants seated after the day's first regular speaker.
AliveAfterFirst == {p \in AliveNow : p >= RegularSpeeches[1].speaker + 1}

DayWithSpeakers == pc = "day_returned" /\ RegularSpeeches # <<>>

\* The pointer is the lowest alive id after the first speaker, or else the
\* lowest alive id.
PointerAdvanced ==
    /\ AliveAfterFirst # {} => day_start_pid = Min(AliveAfterFirst)
    /\ (AliveAfterFirst = {} /\ AliveNow # {}) => day_start_pid = Min(AliveNow)

\* C20 as stated: after a day with speakers the pointer is the lowest
\* alive id after the first speaker or else the lowest alive id, and
\* always names a participant alive at the end of the day.
C20_PointerAlive ==
    DayWithSpeakers =>
       /\ PointerAdvanced
       /\ day_start_pid \in AliveNow

\* C20, amended: after a day with speakers the pointer is the lowest alive
\* id after the first speaker or else the lowest alive id, which is alive
\* at the end of the day; when the day eliminated everybody the pointer
\* is 0, the id of a dead participant.
C20_Pointer ==
    DayWithSpeakers =>
       /\ PointerAdvanced
       /\ AliveNow # {} => day_start_pid \in AliveNow
       /\ AliveNow = {} => day_start_pid = 0

\* The participant seated after the first speaker was eliminated and the
\* pointer went on to the next alive one.
C20_Witness ==
    /\ DayWithSpeakers
    /\ ~is_alive(RegularSpeeches[1].speaker + 1)
    /\ AliveAfterFirst # {}
    /\ day_start_pid = Min(AliveAfterFirst)
    /\ day_start_pid > RegularSpeeches[1].speaker + 1

\* Nobody alive is seated after the first speaker and the pointer went
\* back to the lowest alive id (reached in the long games).
C20_Wrapped ==
    /\ DayWithSpeakers
    /\ AliveAfterFirst = {}
    /\ AliveNow # {}
    /\ day_start_pid = Min(AliveNow)
    /\ day_start_pid < RegularSpeeches[1].speaker

\* The mass vote eliminated all participants.
C20_NobodyLeft ==
    /\ DayWithSpeakers
    /\ AliveNow = {}
    /\ day_start_pid = 0

----------------------------------------------------------------------------
(* Properties of the nomination list, checked under Spec *)

\* The nominations recorded in the first k speeches of the regular stage.
Named(k) == [j \in 1..k |-> RegularSpeeches[j].action.nomination]

\* The participants alive at the start of the day named in those speeches,
\* each once, in the order in which they were first named.
FirstNamed(k) ==
    LET valid == {j \in 1..k :
                    /\ Named(k)[j] # None
                    /\ alive_at_start[Named(k)[j]]
                    /\ \A i \in 1..(j - 1) : Named(k)[i] # Named(k)[j]}
        F[j \in 0..k] ==
            IF j = 0 THEN <<>>
            ELSE IF j \in valid THEN Append(F[j - 1], Named(k)[j])
            ELSE F[j - 1]
    IN  F[k]

\* C21: throughout the day the nomination list is the list of alive
\* participants named in the regular speeches, without duplicates, in the
\* order of their first nomination; a step changes it only by a regular
\* speech appending the alive participant, not yet on the list, that the
\* speaker named.
C21_Nominations ==
    /\ [](InDay =>
            /\ nominations = FirstNamed(Len(RegularSpeeches))
            /\ \A i, j \in 1..Len(nominations) :
                 nominations[i] = nominations[j] => i = j
            /\ \A c \in Range(nominations) : alive_at_start[c])
    /\ [][(InDay /\ InDay' /\ nominations' # nominations) =>
            /\ pc = "speeches"
            /\ pc' = "speeches"
            /\ answer'.query = "speak"
            /\ is_alive(answer'.value.nomination)
            /\ answer'.value.nomination \notin Range(nominations)
            /\ nominations' = Append(nominations, answer'.value.nomination)]_vars

\* A regular speaker named a participant who was dead, another speech
\* named somebody alive, and only the latter is on the list.
C21_Witness ==
    /\ pc = "apply"
    /\ nominations # <<>>
    /\ \E j \in 1..Len(RegularSpeeches) :
         /\ RegularSpeeches[j].action.nomination # None
         /\ ~alive_at_start[RegularSpeeches[j].action.nomination]

----------------------------------------------------------------------------
(* Properties of the don's check, checked under SpecNight *)

\* The don's policy was asked for a check in this step.
DonAsked == pc = "don_check" /\ answer'.query = "don_check"

\* The participant the don's check found to be the sheriff in this step.
FoundSheriff ==
    IF /\ DonAsked
       /\ answer'.value # None
       /\ players[answer'.value].role = SHERIFF
    THEN answer'.value
    ELSE None

\* C22: when the don's check names the sheriff, known_sheriff becomes the
\* sheriff's id for every mafia-aligned participant alive at that moment
\* and stays as it was for everybody else, the civilian-aligned and the
\* dead (a mafia member killed this night included); no other step
\* changes any known_sheriff.
C22_Broadcast ==
    [][IF FoundSheriff # None
       THEN \A p \in Pids :
              known_sheriff'[p] =
                 IF is_alive(p) /\ players[p].role \in {MAFIA, DON}
                 THEN FoundSheriff
                 ELSE known_sheriff[p]
       ELSE known_sheriff' = known_sheriff]_vars

\* The don killed a mafia member and then found the sheriff: the don knows
\* the sheriff, the member killed this night does not.
C22_Witness ==
    /\ pc = "sheriff_check"
    /\ don_check # Nothing
    /\ The(don_check).is_sheriff
    /\ known_sheriff[The(don_check).checker] = The(don_check).target
    /\ \E p \in Pids :
         /\ players[p].role = MAFIA
         /\ alive_at_start[p]
         /\ ~is_alive(p)
         /\ known_sheriff[p] = None
    /\ \A p \in Pids :
         players[p].role \in {CIVILIAN, SHERIFF} => known_sheriff[p] = None

----------------------------------------------------------------------------
(* Properties of the dispatcher, checked under SpecEvents *)

\* An event was emitted in this step.
Emission == pc = "dispatcher" /\ Len(trace') = Len(trace) + 1

EmittedNow == Last(trace').name

\* C23: an emission whose handlers do not raise adds to the invocations,
\* within the same step, one invocation per subscription to the emitted
\* event name, in subscription order, and nothing else: no handler of
\* another event name, and nothing at all without subscribers; it leaves
\* the subscriptions as they were.  No other step invokes a handler.
C23_Emit ==
    [][/\ Emission =>
            /\ handlers' = handlers
            /\ ~(\E i \in 1..Len(handlers[EmittedNow]) :
                    handlers[EmittedNow][i].raises) =>
                 /\ calls' = calls \o
                       [i \in 1..Len(handlers[EmittedNow]) |->
                          [handler |-> handlers[EmittedNow][i].id,
                           event |-> EmittedNow]]
                 /\ pc' = "dispatcher"
       /\ ~Emission => calls' = calls]_vars

\* One handler is subscribed twice to the emitted event and was invoked
\* twice; the handler of the other event was not invoked.
C23_Witness ==
    /\ pc = "dispatcher"
    /\ Len(trace) = 1
    /\ \E e \in SomeEvents :
         /\ trace[1].name = e
         /\ Len(handlers[e]) = 2
         /\ handlers[e][1] = handlers[e][2]
         /\ calls = <<Call(handlers[e][1], e), Call(handlers[e][1], e)>>
         /\ \E f \in SomeEvents \ {e} : handlers[f] # <<>>

\* Two different handlers were invoked in the order of their subscription.
C23_InOrder ==
    /\ pc = "dispatcher"
    /\ Len(trace) = 1
    /\ Len(calls) = 2
    /\ calls[1].handler = "second"
    /\ calls[2].handler = "first"

\* An emission without subscribers.
C23_NoSubscriber ==
    /\ Len(trace) = 2
    /\ calls = <<>>
    /\ Subscriptions > 0

----------------------------------------------------------------------------
(* Properties of a raising handler, checked under SpecRaise *)

RoundsCompleted == IF round_no = 0 THEN 0 ELSE round_no - 1

\* C24: once a handler has raised, the failing handler is the only one
\* that was invoked for that emission, the history holds the RoundLogs of
\* the completed rounds only, and run() has not returned a winner; the
\* step in which the error leaves the engine appends nothing to the
\* history, and no step of the engine follows it.
C24_HandlerRaises ==
    /\ [](pc = "raised" =>
            /\ Len(calls) = 1
            /\ calls[1].handler = "failing"
            /\ Len(history) = RoundsCompleted)
    /\ [][pc' = "raised" => history' = history /\ players' = players]_vars
    /\ [][pc # "raised"]_vars

\* The handler raised in the second round: the first round is logged, the
\* second is not.
C24_Witness ==
    /\ pc = "raised"
    /\ round_no = 2
    /\ Len(history) = 1
    /\ calls = <<[handler |-> "failing", event |-> calls[1].event]>>

\* The handler raised at the kill event of the first night: the victim is
\* dead and no round is logged.
C24_NightAbort ==
    /\ pc = "raised"
    /\ Last(trace).name = "mafia_kill"
    /\ \E p \in Pids : ~is_alive(p)
    /\ history = <<>>

----------------------------------------------------------------------------
(* Determinism of run(), checked under SpecTwice *)

SecondRunOver == pc = "returned" /\ earlier # Nothing

----------------------------------------------------------------------------
(* The role hook, checked under SpecNight *)

NightOver == pc = "night_returned"

\* The participants whose perform_night_action was called this night.
HookCalled ==
    {trace[i].who : i \in {j \in 1..Len(trace) :
                             /\ trace[j].kind = "hook"
                             /\ trace[j].name = "perform_night_action"}}

\* C26: when night_phase returns, perform_night_action has been called
\* for every participant of the game.
C26_HookForAll == NightOver => HookCalled = Pids

\* What night_phase does instead: it asks the policies of the roles it
\* looks up itself, and calls no hook.
C26_DirectQueries ==
    NightOver =>
       /\ HookCalled = {}
       /\ \A i \in 1..Len(trace) :
            trace[i].kind = "query" =>
               /\ trace[i].name \in {"mafia_kill", "don_check", "sheriff_check"}
               /\ trace[i].name = "don_check" =>
                    players[trace[i].who].role = DON
               /\ trace[i].name = "sheriff_check" =>
                    players[trace[i].who].role = SHERIFF
               /\ trace[i].name = "mafia_kill" =>
                    players[trace[i].who].role \in {MAFIA, DON}

----------------------------------------------------------------------------
(* Properties of run() on a malformed roster, checked under Spec *)

Malformed ==
    \/ ~\E p \in Pids : players[p].role = DON
    \/ ~\E p \in Pids : players[p].role = SHERIFF

\* C27: on a roster without a DON or without a SHERIFF run() can only
\* fail: the game never leaves the state it was constructed in, no
\* game_started or day_started event is emitted, no policy is queried,
\* the history stays empty and everybody stays alive.
C27_SetupError ==
    /\ [](Malformed =>
            /\ pc \in {"run", "failed"}
            /\ round_no = 0
            /\ Emitted("game_started") = {}
            /\ Emitted("day_started") = {}
            /\ \A i \in 1..Len(trace) : trace[i].kind # "query"
            /\ history = <<>>
            /\ \A p \in Pids : is_alive(p)
            /\ winner = NoRole)
    /\ [][(Malformed /\ pc = "run" /\ pc' # "run") =>
            /\ pc' = "failed"
            /\ trace' = trace
            /\ players' = players]_vars

\* run() has failed on a roster with a DON and no SHERIFF.
C27_Witness ==
    /\ pc = "failed"
    /\ \E p \in Pids : players[p].role = DON
    /\ ~\E p \in Pids : players[p].role = SHERIFF

----------------------------------------------------------------------------
(* The Player methods called directly by the orchestration layer *)

MaxAsks == 2

AskRosters == { <<SHERIFF, DON, CIVILIAN>> }

\* The day-action queries of one phase, so far.
AskedSoFar == {i \in 1..Len(trace) : trace[i].kind = "query"}

\* Every variable the Player methods leave alone.
gameLocals == <<history, day_start_pid, current_speeches, pc, runLocals,
                dayLocals, idx, nightLocals, alive_at_start, viewVars,
                policyVars, outsideVars>>

\* Player.eliminate()
PlayerEliminate(p) ==
    /\ players' = [players EXCEPT ![p].alive = FALSE]
    /\ UNCHANGED <<gameLocals, trace, answer>>

\* Player.speak(game): forwards to the policy and returns its answer.
PlayerSpeak(p, answers) ==
    /\ \E reply \in answers[p] :
         /\ answer' = Answer("speak", p, reply)
         /\ trace' = Append(trace, Query("speak", p, <<>>))
    /\ UNCHANGED <<players, gameLocals>>

\* Player.vote(game, nominations): forwards to the policy.
PlayerVote(p, answers, noms) ==
    /\ \E reply \in answers[p] :
         /\ answer' = Answer("vote", p, reply)
         /\ trace' = Append(trace, Query("vote", p, noms))
    /\ UNCHANGED <<players, gameLocals>>

\* Player.vote_elimination(game, candidates): forwards to the policy.
PlayerVoteElimination(p, answers, candidates) ==
    /\ \E reply \in answers[p] :
         /\ answer' = Answer("vote_elimination", p, reply)
         /\ trace' = Append(trace, Query("vote_elimination", p, candidates))
    /\ UNCHANGED <<players, gameLocals>>

AskSpeak == [p \in Pids |-> SpeechAnswers({None, (p + 1) % NumPlayers},
                                          {NoClaims})]

AskVote == Each({None, 0})

AskMassVote == Each(BOOLEAN)

InitAsk ==
    /\ \E roles \in AskRosters : InitGame(ToPlayers(roles))
    /\ pc = "player"
    /\ round_no = 1

NextAsk ==
    \/ \E p \in Pids : is_alive(p) /\ PlayerEliminate(p)
    \/ \E p \in Pids : Cardinality(AskedSoFar) < MaxAsks /\ PlayerSpeak(p, AskSpeak)
    \/ \E p \in Pids :
         Cardinality(AskedSoFar) < MaxAsks /\ PlayerVote(p, AskVote, <<0, 1>>)
    \/ \E p \in Pids :
         /\ Cardinality(AskedSoFar) < MaxAsks
         /\ PlayerVoteElimination(p, AskMassVote, <<0, 1>>)

SpecAsk == InitAsk /\ [][NextAsk]_vars

\* C28: a speak, vote or vote_elimination query is never answered for a
\* participant whose alive flag is false.
C28_DeadNotAnswered ==
    [][\A q \in {"speak", "vote", "vote_elimination"}, p \in Pids :
         (~players[p].alive /\ Len(trace') = Len(trace) + 1
            /\ trace'[Len(trace')].name = q /\ trace'[Len(trace')].who = p)
         => answer' = answer]_vars

\* A dead participant was asked to vote and the policy's vote came back.
C28_DeadAnswered ==
    /\ answer.query = "vote"
    /\ ~players[answer.who].alive
    /\ answer.value = 0

----------------------------------------------------------------------------
(* run() with policies that never nominate and never kill *)

MaxQuietRounds == 3

QuietRosters ==
    { <<DON, SHERIFF, CIVILIAN, CIVILIAN>>,
      <<CIVILIAN, MAFIA, DON, SHERIFF, CIVILIAN, CIVILIAN>> }

\* Nobody nominates; participant 0 may make a claim.
QuietSpeak ==
    [p \in Pids |->
       IF p = 0 THEN SpeechAnswers({None}, {NoClaims, SomeClaim(0)})
       ELSE SpeechAnswers({None}, {NoClaims})]

\* No mafia-aligned policy returns a target.
QuietKill == Each({None})

QuietCheck == Each({None, 0})

InitQuiet ==
    /\ \E roles \in QuietRosters : InitGame(ToPlayers(roles))
    /\ pc = "run"
    /\ round_no = 0

\* The rounds of the unbounded loop are followed up to MaxQuietRounds.
\* With these policies no day has a victim to hear, a candidate to vote on
\* or anybody to eliminate, so the steps of day_phase that ask for last
\* words or votes have nobody to ask and are left out.
NextQuiet ==
    \/ RunStart
    \/ round_no <= MaxQuietRounds /\ DayStart
    \/ RegularSpeech(QuietSpeak)
    \/ BeginVoting
    \/ ApplyElimination
    \/ DayReturn
    \/ AfterDay
    \/ KillResolution(QuietKill)
    \/ DonCheck(QuietCheck)
    \/ SheriffCheck(QuietCheck)
    \/ DeferredDeath
    \/ AfterNight

\* run() is a sequential program: it takes its next step whenever it has one.
SpecQuiet == InitQuiet /\ [][NextQuiet]_vars /\ WF_vars(NextQuiet)

----------------------------------------------------------------------------
(* Properties of the run loop, checked under SpecQuiet *)

\* C29: when no policy nominates and no mafia-aligned policy returns a kill
\* target, nobody ever dies, the winner stays undecided, run() never
\* returns, and every round that is begun is appended to the history, round
\* after round, for as many rounds as are followed.
C29_Unbounded ==
    /\ [](/\ \A p \in Pids : players[p].alive
          /\ winner = NoRole
          /\ pc \notin {"returned", "failed"}
          /\ pc = "day_start" => Len(history) = round_no - 1)
    /\ \A n \in 0..(MaxQuietRounds - 1) :
         [](Len(history) = n => <>(Len(history) = n + 1))
    /\ <>(Len(history) = MaxQuietRounds)

\* The last round followed has been logged with nobody killed or eliminated
\* and the loop stands at the start of the next day.
C29_Witness ==
    /\ pc = "day_start"
    /\ round_no = MaxQuietRounds + 1
    /\ Len(history) = MaxQuietRounds
    /\ \A i \in 1..Len(history) :
         /\ history[i].day.eliminated = Nothing
         /\ history[i].night # Nothing
         /\ The(history[i].night).kill = None
    /\ \A p \in Pids : players[p].alive

----------------------------------------------------------------------------
(* Properties of the kill outcome event, checked under SpecNight *)

AfterKill == pc \in {"don_check", "sheriff_check", "deferred",
                     "night_returned"}

\* The mafia_kill night_action events of the night in progress.
KillEvents == {i \in 1..Len(trace) :
                 trace[i].kind = "emit" /\ trace[i].name = "mafia_kill"}

KillEvent == trace[CHOOSE i \in KillEvents : TRUE]

\* The kill took effect: the target is dead, or is the sheriff whose death
\* waits for the end of the night.
KillTookEffect(target) ==
    \/ ~players[target].alive
    \/ players[target].role = SHERIFF /\ pc # "night_returned"

\* C30 as stated: one mafia_kill event per night, whose success flag is
\* false exactly when the target is null and true exactly when a target was
\* resolved and the kill applied.
C30_FlagTellsNoTarget ==
    AfterKill =>
      /\ Cardinality(KillEvents) = 1
      /\ ~KillEvent.flag <=> KillEvent.target = None
      /\ KillEvent.flag <=>
           (KillEvent.target # None /\ KillTookEffect(KillEvent.target))

\* C30: every night phase emits exactly one mafia_kill night_action event;
\* its success flag is true exactly when a target was resolved that was
\* alive at nightfall, and then the kill is applied (at once, or deferred
\* for the sheriff); the flag is false when no target was resolved and also
\* when the resolved target was already dead, and then nobody dies.
C30_KillOutcome ==
    AfterKill =>
      /\ Cardinality(KillEvents) = 1
      /\ KillEvent.day = round_no
      /\ KillEvent.flag <=>
           (KillEvent.target # None /\ alive_at_start[KillEvent.target])
      /\ KillEvent.flag =>
           /\ KillTookEffect(KillEvent.target)
           /\ \A p \in Pids \ {KillEvent.target} :
                players[p].alive = alive_at_start[p]
      /\ ~KillEvent.flag =>
           \A p \in Pids : players[p].alive = alive_at_start[p]

\* The kill of a participant other than the sheriff was reported as
\* successful and that participant is dead before the don's check.
C30_Witness ==
    /\ pc = "don_check"
    /\ Cardinality(KillEvents) = 1
    /\ KillEvent.flag
    /\ alive_at_start[KillEvent.target]
    /\ ~players[KillEvent.target].alive

\* The sheriff's kill was reported as successful while the sheriff lives on.
C30_Deferred ==
    /\ pc = "sheriff_check"
    /\ KillEvent.flag
    /\ players[KillEvent.target].role = SHERIFF
    /\ players[KillEvent.target].alive

\* A target that was already dead was resolved and reported as a failure.
C30_DeadTarget ==
    /\ pc = "don_check"
    /\ ~KillEvent.flag
    /\ KillEvent.target # None
    /\ ~alive_at_start[KillEvent.target]

----------------------------------------------------------------------------
(* Properties of the recorded kill, checked under SpecNight *)

\* The kill recorded in the NightLog night_phase has just returned.
ReturnedKill == IF night_log = Nothing THEN None ELSE The(night_log).kill

\* C31: a non-null NightLog.kill names a participant who was alive when the
\* night began and is dead when night_phase returns.
C31_KillOccurred ==
    (pc = "night_returned" /\ ReturnedKill # None) =>
      /\ alive_at_start[ReturnedKill]
      /\ ~players[ReturnedKill].alive

\* night_phase has returned a NightLog whose kill names a participant who
\* was dead before the night began.
C31_DeadRecorded ==
    /\ pc = "night_returned"
    /\ ReturnedKill # None
    /\ ~alive_at_start[ReturnedKill]

----------------------------------------------------------------------------
(* Properties of the investigation candidates, checked under SpecNight *)

\* The don_check and sheriff_check queries of the night in progress.
CheckQueries == {i \in 1..Len(trace) :
                   /\ trace[i].kind = "query"
                   /\ trace[i].name \in {"don_check", "sheriff_check"}}

\* The kill resolved in the night in progress, as published.
ResolvedKill ==
    LET events == {i \in 1..Len(trace) :
                     trace[i].kind = "emit" /\ trace[i].name = "mafia_kill"}
    IN  IF events = {} THEN None ELSE trace[CHOOSE i \in events : TRUE].target

\* C32: the candidates offered for a don check or a sheriff check are exactly
\* the participants alive at the time of the call other than the checker and
\* the resolved kill target, in id order. (Nobody dies between the kill step
\* and the checks, so alive at the time of the call is alive now.)
C32_AliveCandidates ==
    pc \in {"sheriff_check", "deferred"} =>
      \A i \in CheckQueries :
         trace[i].list =
           SelectSeq(PidSeq, LAMBDA p : /\ players[p].alive
                                        /\ p # trace[i].who
                                        /\ p # ResolvedKill)

\* A participant who died in an earlier round was offered to a checker.
C32_DeadOffered ==
    /\ pc \in {"sheriff_check", "deferred"}
    /\ \E i \in CheckQueries :
         \E j \in 1..Len(trace[i].list) :
            ~alive_at_start[trace[i].list[j]]

----------------------------------------------------------------------------
(* GameHistoryDB: buffered logging of finished games *)

MaxBatch == 3

MaxLogged == 5

\* The row log_game builds of a game: the winner's name and the game's
\* data, which stands here for its JSON text.
GameRow(w, game) == [winner |-> w, history |-> game]

\* Fault: the rows are written and stay in the buffer.
CommitBatchKeepingBuffer(d) == [d EXCEPT !.rows = @ \o d.buffer]

\* GameHistoryDB._commit_batch: one transaction inserts the buffered rows in
\* order, then the buffer is cleared; nothing happens on an empty buffer.
CommitBatch(d) ==
    IF d.buffer = <<>> THEN d
    ELSE [d EXCEPT !.rows = @ \o d.buffer, !.buffer = <<>>]

\* GameHistoryDB(path, batch_size = b) on a path that did not exist.
OpenDB(b) ==
    /\ pc = "db"
    /\ ~db.open
    /\ logged = <<>>
    /\ db' = [batch_size |-> b, buffer |-> <<>>, rows |-> <<>>, open |-> TRUE]
    /\ UNCHANGED <<players, history, day_start_pid, current_speeches, pc,
                   runLocals, dayLocals, idx, nightLocals, alive_at_start,
                   trace, viewVars, policyVars, dispatcherVars,
                   interpreterVars, earlier, logged, answer>>

\* GameHistoryDB.log_game(game, winner)
LogGame(game, w) ==
    /\ pc = "db"
    /\ db.open
    /\ logged' = Append(logged, GameRow(w, game))
    /\ LET buffered == [db EXCEPT !.buffer = Append(@, GameRow(w, game))]
       IN  db' = IF Len(buffered.buffer) >= buffered.batch_size
                 THEN CommitBatch(buffered)
                 ELSE buffered
    /\ UNCHANGED <<players, history, day_start_pid, current_speeches, pc,
                   runLocals, dayLocals, idx, nightLocals, alive_at_start,
                   trace, viewVars, policyVars, dispatcherVars,
                   interpreterVars, earlier, answer>>

\* GameHistoryDB.close(): the pending rows are flushed, then the connection
\* is closed.
CloseDB ==
    /\ pc = "db"
    /\ db.open
    /\ db' = [CommitBatch(db) EXCEPT !.open = FALSE]
    /\ UNCHANGED <<players, history, day_start_pid, current_speeches, pc,
                   runLocals, dayLocals, idx, nightLocals, alive_at_start,
                   trace, viewVars, policyVars, dispatcherVars,
                   interpreterVars, earlier, logged, answer>>

InitDB ==
    /\ InitGame(ToPlayers(<<>>))
    /\ pc = "db"
    /\ round_no = 0

\* The caller opens a database, logs its games one after the other (the
\* k-th game logged is game k) and closes the database.
NextDB ==
    \/ \E b \in 1..MaxBatch : OpenDB(b)
    \/ \E w \in {CIVILIAN, MAFIA} :
         Len(logged) < MaxLogged /\ LogGame(Len(logged) + 1, w)
    \/ CloseDB

SpecDB == InitDB /\ [][NextDB]_vars

\* C33: with batch size b >= 1, after k calls of log_game b * floor(k / b)
\* rows are committed and the buffer holds the other k mod b games; the
\* committed rows followed by the buffer are the games logged, in logging
\* order; after close every game logged is committed exactly once.
C33_Batches ==
    LET k == Len(logged)
        b == db.batch_size
    IN  /\ b >= 1
        /\ db.open =>
             /\ Len(db.rows) = b * (k \div b)
             /\ Len(db.buffer) = k % b
        /\ db.rows \o db.buffer = logged
        /\ (~db.open /\ logged # <<>>) =>
             /\ db.rows = logged
             /\ db.buffer = <<>>
        /\ \A i, j \in 1..Len(db.rows) :
             db.rows[i].history = db.rows[j].history => i = j

\* Five games were logged with batch size 2, four are committed and one
\* waits in the buffer.
C33_Witness ==
    /\ db.open
    /\ db.batch_size = 2
    /\ Len(logged) = 5
    /\ Len(db.rows) = 4
    /\ Len(db.buffer) = 1

\* The database was closed with a partial batch pending, which is committed.
C33_Flushed ==
    /\ ~db.open
    /\ db.batch_size = 3
    /\ Len(logged) = 4
    /\ db.rows = logged

----------------------------------------------------------------------------
(* Properties of the voting loop, checked under SpecDay *)

\* The voting rounds begun in the day in progress.
RoundsHeld ==
    Cardinality({i \in 1..Len(trace) :
                   /\ trace[i].kind = "emit"
                   /\ trace[i].name = "info"
                   /\ trace[i].list = <<"voting">>})

VotersAtStart == SelectSeq(PidSeq, LAMBDA p : alive_at_start[p])

\* C34: a day never begins more voting rounds than it has nominations, and
\* the vote list of the DayLog holds exactly one Vote per participant alive
\* at the start of the day per round held, round after round, the voters of
\* a round in id order.
C34_VotingLoop ==
    /\ pc \in {"voting", "tie_speeches", "mass_vote", "apply", "last_words",
               "day_returned"}
         => RoundsHeld <= Len(nominations)
    /\ pc = "day_returned" =>
         LET logged_votes == The(day_log).votes
             n == Len(VotersAtStart)
         IN  /\ Len(logged_votes) = RoundsHeld * n
             /\ \A i \in 1..Len(logged_votes) :
                  logged_votes[i].voter = VotersAtStart[((i - 1) % n) + 1]

\* A day with two nominations held two full voting rounds of four votes.
C34_Witness ==
    /\ pc = "day_returned"
    /\ Len(nominations) = 2
    /\ RoundsHeld = 2
    /\ Len(The(day_log).votes) = 8

----------------------------------------------------------------------------
(* Properties of the alive flags of a round, checked under Spec *)

\* The participants whose alive flag differs from the one they had when the
\* phase in progress began.
Changed == {p \in Pids : players[p].alive # alive_at_start[p]}

DayPhase == pc \in {"posthumous", "speeches", "voting", "tie_speeches",
                    "mass_vote", "apply", "last_words", "day_returned"}

NightPhase == pc \in {"don_check", "sheriff_check", "deferred",
                      "night_returned"}

\* The ids of the DayLog day_phase has returned.
LoggedEliminated ==
    IF The(day_log).eliminated = Nothing THEN <<>>
    ELSE The(The(day_log).eliminated)

MassVotePassed ==
    /\ \E i \in 1..Len(trace) :
         /\ trace[i].kind = "emit"
         /\ trace[i].name = "info"
         /\ trace[i].list = <<"revote tie, voting on elimination">>
    /\ 2 * yes_votes > Cardinality({p \in Pids : alive_at_start[p]})

\* C35: during a day only participants in the day's eliminated list change
\* their alive flag; the DayLog's eliminated ids were all nominated that day
\* and are dead, the list is null rather than empty, and it holds more than
\* one id only after a mass-elimination vote that passed. During a night at
\* most one participant changes, the one recorded as the NightLog's kill.
C35_Accounted ==
    /\ DayPhase =>
         /\ Changed \subseteq {eliminated[i] : i \in 1..Len(eliminated)}
         /\ pc \in {"posthumous", "speeches", "voting", "tie_speeches",
                    "mass_vote", "apply"} => Changed = {}
    /\ pc = "day_returned" =>
         /\ The(day_log).eliminated # {<<>>}
         /\ Changed \subseteq
              {LoggedEliminated[i] : i \in 1..Len(LoggedEliminated)}
         /\ \A i \in 1..Len(LoggedEliminated) :
              /\ ~players[LoggedEliminated[i]].alive
              /\ \E j \in 1..Len(nominations) :
                   nominations[j] = LoggedEliminated[i]
         /\ Len(LoggedEliminated) > 1 => MassVotePassed
    /\ NightPhase => Cardinality(Changed) <= 1
    /\ (NightPhase /\ pc # "night_returned") =>
         Changed \subseteq {kill} \ {None}
    /\ pc = "night_returned" =>
         Changed \subseteq {The(night_log).kill} \ {None}

\* A round in which the day eliminated one participant and the night killed
\* another, both recorded.
C35_Witness ==
    /\ pc = "night_returned"
    /\ day_log # Nothing
    /\ The(day_log).eliminated # Nothing
    /\ Changed = {The(night_log).kill}

\* Two tied candidates were eliminated together by a mass vote.
C35_MassEliminated ==
    /\ pc = "day_returned"
    /\ Len(LoggedEliminated) = 2
    /\ Changed = {LoggedEliminated[1], LoggedEliminated[2]}

----------------------------------------------------------------------------
(* Non-interference of history_for, checked under Spec *)

\* Other contents the two check fields of a night might have had.
OtherSheriffChecks ==
    {Nothing, Some(CheckResult(0, 1, TRUE)), Some(CheckResult(0, 1, FALSE))}

OtherDonChecks ==
    {Nothing, Some(DonCheckResult(0, 1, TRUE)),
     Some(DonCheckResult(0, 1, FALSE))}

\* The history h with the check fields the holder of role may not see
\* replaced, round by round, by those of other.
Variant(role, h, other) ==
    [i \in 1..Len(h) |->
       IF h[i].night = Nothing THEN h[i]
       ELSE LET night == The(h[i].night)
            IN  RoundLog(h[i].day,
                  Some(NightLog(IF role = SHERIFF THEN night.sheriff_check
                                ELSE other[i][1],
                                IF role = DON THEN night.don_check
                                ELSE other[i][2],
                                night.kill)))]

Variants(role, h) ==
    {Variant(role, h, other) :
       other \in [1..Len(h) -> OtherSheriffChecks \X OtherDonChecks]}

\* What history_for computes for the holder of role on the history h.
ViewOf(role, h) == [i \in 1..Len(h) |-> VisibleRound(role, h[i])]

\* C36: the view a requester got is the view the same requester would get
\* of any history that differs from the actual one only in check fields the
\* requester's role may not see: both checks for a requester who is neither
\* sheriff nor don, the don's check for the sheriff, the sheriff's check
\* for the don.
C36_NoLeak ==
    pc = "viewed" =>
      \A g \in Variants(players[requester].role, history) :
         ViewOf(players[requester].role, g) = visible

\* A civilian looked at a history holding a don check and a sheriff check,
\* which other contents would not have changed.
C36_Witness ==
    /\ pc = "viewed"
    /\ players[requester].role = CIVILIAN
    /\ \E i \in 1..Len(history) :
         /\ history[i].night # Nothing
         /\ The(history[i].night).don_check # Nothing
         /\ The(history[i].night).sheriff_check # Nothing
    /\ Cardinality(Variants(CIVILIAN, history)) > 1

----------------------------------------------------------------------------
(* Properties of the speech_added events of a day, checked under Spec *)

\* The speech_added events published since the day began, in order.
SpeechEvents ==
    SelectSeq(trace, LAMBDA e : e.kind = "emit" /\ e.name = "speech_added")

InDayPhase == pc \in {"posthumous", "speeches", "voting", "tie_speeches",
                      "mass_vote", "apply", "last_words", "day_returned"}

\* C37: within a day the speech_added events are one per recorded speech,
\* in the order of the day's speech list; the index of each is the
\* zero-based position of its speech in that list, so the indices start at
\* 0 on every day and go up by one; each event carries the day number and
\* the speech as recorded. The list returned in the DayLog is that list.
C37_SpeechEvents ==
    /\ InDayPhase =>
         /\ Len(SpeechEvents) = Len(speeches)
         /\ \A k \in 1..Len(speeches) :
              /\ SpeechEvents[k].num = k - 1
              /\ SpeechEvents[k].day = round_no
              /\ SpeechEvents[k].who = speeches[k].speaker
              /\ SpeechEvents[k].target = speeches[k].action.nomination
              /\ SpeechEvents[k].list = speeches[k].action.claims
    /\ pc = "day_returned" => The(day_log).speeches = speeches

\* The second day began with a posthumous speech published with index 0
\* and went on to a regular speech with index 1.
C37_Witness ==
    /\ InDayPhase
    /\ round_no = 2
    /\ Len(SpeechEvents) >= 2
    /\ \E i \in 1..Len(trace) :
         trace[i].kind = "query" /\ trace[i].name = "last_words"
    /\ SpeechEvents[1].num = 0
    /\ ~players[SpeechEvents[1].who].alive

\* A tie speech and the last words of an eliminated participant were
\* published after the regular speeches of the day.
C37_LateSpeeches ==
    /\ pc = "day_returned"
    /\ The(day_log).eliminated # Nothing
    /\ \E i \in 1..Len(trace) :
         /\ trace[i].kind = "emit"
         /\ trace[i].name = "info"
         /\ trace[i].list = <<"tie detected, revoting">>
    /\ Len(speeches) > Cardinality({p \in Pids : alive_at_start[p]}) + 1

----------------------------------------------------------------------------
(* Who the engine asks, checked under Spec *)

\* The trace entries a step has added.
Added(before, after) ==
    IF Len(before) <= Len(after) /\ SubSeq(after, 1, Len(before)) = before
    THEN SubSeq(after, Len(before) + 1, Len(after))
    ELSE after

LivingOnly == {"speak", "vote", "vote_elimination", "mafia_kill",
               "don_check", "sheriff_check"}

\* C38: whenever the engine asks a participant to speak, vote, vote on a
\* mass elimination, propose a kill or perform a check, that participant's
\* alive flag is true at that moment; a participant whose flag is false is
\* only ever asked for last words.
C38_AskedAlive ==
    [][LET new == Added(trace, trace')
       IN  \A i \in 1..Len(new) :
              new[i].kind = "query" =>
                 /\ new[i].name \in LivingOnly => players[new[i].who].alive
                 /\ ~players[new[i].who].alive => new[i].name = "last_words"
      ]_vars

\* On the second day, with a participant dead, the voters were asked.
C38_Witness ==
    /\ round_no = 2
    /\ pc = "voting"
    /\ idx > 1
    /\ \E p \in Pids : ~players[p].alive
    /\ answer.query = "vote"

----------------------------------------------------------------------------
(* Rotation of the first speaker from day to day, checked under SpecLong *)

\* The kill recorded for the night before day d, None for the first day.
KillBefore(d) ==
    IF d = 1 THEN None
    ELSE IF history[d - 1].night = Nothing THEN None
    ELSE The(history[d - 1].night).kill

\* The first regular speaker of the logged day d: the first speech of its
\* DayLog that is not the morning speech of the night's victim.
FirstRegularOf(d) ==
    LET said == history[d].day.speeches
    IN  IF KillBefore(d) # None THEN said[2].speaker ELSE said[1].speaker

\* The first regular speaker of the day in progress, once that speech is made.
FirstRegularToday ==
    IF KillBefore(round_no) # None THEN speeches[2].speaker
    ELSE speeches[1].speaker

FirstSpeechMade == round_no >= 2 /\ pc = "speeches" /\ idx >= 2

\* C39: when a day begins with at least two participants alive, its first
\* regular speaker is not the first regular speaker of the day before,
\* whoever was eliminated or killed in between.
C39_Rotation ==
    (FirstSpeechMade /\ Cardinality({p \in Pids : alive_at_start[p]}) >= 2)
      => FirstRegularToday # FirstRegularOf(round_no - 1)

\* The first speaker changed although the participant the rotation pointer
\* named at the end of the previous day was killed in the night.
C39_Witness ==
    /\ FirstSpeechMade
    /\ Cardinality({p \in Pids : alive_at_start[p]}) >= 2
    /\ ~alive_at_start[day_start_pid]
    /\ KillBefore(round_no) = day_start_pid
    /\ alive_at_start[FirstRegularOf(round_no - 1)]
    /\ FirstRegularToday # FirstRegularOf(round_no - 1)

\* The rotation wrapped: the first speaker of the day has a lower id than
\* the first speaker of the day before.
C39_Wrapped ==
    /\ FirstSpeechMade
    /\ FirstRegularToday < FirstRegularOf(round_no - 1)

----------------------------------------------------------------------------
(* run() with kill policies that always name an alive candidate *)

MaxSureRounds == 6

SureRosters ==
    { <<DON, SHERIFF, CIVILIAN>>,
      <<DON, SHERIFF, CIVILIAN, CIVILIAN>>,
      <<CIVILIAN, MAFIA, DON, SHERIFF, CIVILIAN>> }

\* Participants 0 and 1 may nominate their neighbour.
SureSpeak ==
    [p \in Pids |->
       IF p <= 1 THEN SpeechAnswers({None, p + 1}, {NoClaims})
       ELSE SpeechAnswers({None}, {NoClaims})]

SureWords == Each(SpeechAnswers({None}, {NoClaims}))

SureVote == [p \in Pids |-> IF p % 2 = 0 THEN {1} ELSE {None, 2}]

SureMassVote == [p \in Pids |-> IF p = 0 THEN BOOLEAN ELSE {TRUE}]

SureCheck == Each({None, 0})

\* The kill policies: each mafia-aligned participant names one of the
\* candidates it is offered, which are the participants alive.
SureKills == {[p \in Pids |-> {choice[p]}] :
                choice \in [Pids -> {p \in Pids : players[p].alive}]}

InitSure ==
    /\ \E roles \in SureRosters : InitGame(ToPlayers(roles))
    /\ pc = "run"
    /\ round_no = 0

NextSure ==
    \/ RunStart
    \/ round_no <= MaxSureRounds /\ DayStart
    \/ PosthumousSpeech(SureWords)
    \/ RegularSpeech(SureSpeak)
    \/ BeginVoting
    \/ CastVote(SureVote)
    \/ Tally
    \/ TieSpeech(SureWords)
    \/ AfterTieSpeeches
    \/ MassVote(SureMassVote)
    \/ MassDecide
    \/ ApplyElimination
    \/ LastWords(SureWords)
    \/ DayReturn
    \/ AfterDay
    \/ \E kills \in SureKills : KillResolution(kills)
    \/ DonCheck(SureCheck)
    \/ SheriffCheck(SureCheck)
    \/ DeferredDeath
    \/ AfterNight

\* run() is a sequential program: it takes its next step whenever it has one.
SpecSure == InitSure /\ [][NextSure]_vars /\ WF_vars(NextSure)

\* C40: when every kill policy names an alive candidate every night, run()
\* on a roster of N participants with a don and a sheriff returns a winner,
\* and does so within N rounds, whatever the other policies answer.
C40_Terminates ==
    /\ [](round_no <= NumPlayers)
    /\ [](pc = "returned" =>
            /\ winner \in {CIVILIAN, MAFIA}
            /\ Len(history) <= NumPlayers
            /\ Len(history) = round_no)
    /\ <>(pc = "returned")

\* run() returned after a night killed a living participant in each of its
\* rounds, more than one round having been played.
C40_Witness ==
    /\ pc = "returned"
    /\ Len(history) >= 2
    /\ \A i \in 1..(Len(history) - 1) :
         /\ history[i].night # Nothing
         /\ The(history[i].night).kill # None

====
